---- MODULE Spec2Model ----
(***************************************************************************)
(* A model of zednet's core: the VPN kill switch (core/killswitch.py), the *)
(* site publisher and downloader (core/publisher.py, core/downloader.py,   *)
(* core/storage.py) and the path sanitizer (core/security.py).             *)
(*                                                                         *)
(* Each subsystem has its own specification (SpecKS, SpecPub, SpecPath);   *)
(* the variables of the other subsystems stay at their initial values.     *)
(***************************************************************************)
EXTENDS Integers, Sequences, FiniteSets, TLC

VARIABLES
    \* ---- KillSwitch (core/killswitch.py) ----
    is_running,             \* KillSwitch.is_running
    is_safe,                \* KillSwitch.is_safe
    last_known_ip,          \* KillSwitch.last_known_ip
    on_emergency_shutdown,  \* TRUE when a callback is registered (None otherwise)
    shutdown_triggered,     \* KillSwitch._shutdown_triggered
    audit_events,           \* what the monitor handed to its AuditLogger, in order
    callback_calls,         \* how many times the registered callback has been invoked
    probe_trace             \* history: the outcome of every probe so far, in order

ksVars == <<is_running, is_safe, last_known_ip, on_emergency_shutdown,
            shutdown_triggered, audit_events, callback_calls, probe_trace>>

    \* ---- SiteStorage / SitePublisher / SiteDownloader ----

VARIABLES
    metadata,          \* SiteStorage: metadata/<site_id>.json, None when absent
    key_files,         \* SiteStorage: the sites whose keys/<site_id>.key exists
    dht_puts,          \* every item handed to session.dht_put_item, in order
    active_sites,      \* SitePublisher.active_sites: site_id -> seeded info hash
    pub,               \* each publishing thread's position inside publish_site
    pub_history,       \* history: publish_site calls and returns, in order
    active_downloads,  \* SiteDownloader.active_downloads: site_id -> entry
    update_callbacks,  \* SiteDownloader.update_callbacks: sites with a callback
    checkers,          \* running update_checker threads per site
    observed,          \* history: the overlay item behind each tracked info hash
    accepted,          \* history: highest sequence a lookup returned an address for
    lookups,           \* history: how many _lookup_site_in_dht calls were made
    last_lookup,       \* history: the latest _lookup_site_in_dht call and its result
    last_update,       \* history: the latest _update_site of an update checker
    stale              \* history: running checkers started before the site's last remove_site

pubVars == <<metadata, key_files, dht_puts, active_sites, pub, pub_history>>

dlVars == <<active_downloads, update_callbacks, checkers, observed,
            accepted, lookups, last_lookup, last_update, stale>>

VARIABLES
    \* ---- SecurityManager.sanitize_path (core/security.py) ----
    user_path,      \* the requested path, a string as the sequence of its code points
    segments,       \* how many segments the client has put into user_path
    sandbox,        \* the base_dir argument and the symlinks of the filesystem
    sanitized,      \* what sanitize_path(user_path, base_dir) returned, once called
    fs_calls        \* how many times that call asked the filesystem (Path.resolve)

pathVars == <<user_path, segments, sandbox, sanitized, fs_calls>>

VARIABLES
    \* ---- SecurityManager.validate_site_id (core/security.py) ----
    site_id_arg,    \* the argument: whether it is a str, and its code points
    id_result       \* what validate_site_id(site_id_arg) did, once called

idVars == <<site_id_arg, id_result>>

VARIABLES
    \* ---- serve_site (server/local_server.py) ----
    req_site_id,     \* the site_id of the request, a string
    site_dir_exists, \* whether the site's directory exists
    logger_present,  \* whether audit_logger is set
    served_kind,     \* what the filesystem has at the sanitized path
    response,        \* the answer of serve_site: status and whether file bytes
    serve_audit      \* the audit events serve_site logged

serveVars == <<req_site_id, site_dir_exists, logger_present, served_kind,
               response, serve_audit>>

VARIABLES
    \* ---- SiteStorage.save_private_key / load_private_key (core/storage.py) ----
    key_store,      \* keys/<site_id>.key: the content and the mode of each file
    saving,         \* the save_private_key call that has written but not yet chmod-ed
    saved,          \* history: the key and the password of the last write per site
    last_load,      \* history: the latest load_private_key call and its outcome
    key_ops         \* history: how many calls were made

keyVars == <<key_store, saving, saved, last_load, key_ops>>

VARIABLES
    \* ---- AuditLogger (core/audit_log.py) ----
    log_file,       \* the lines of today's audit log file, one event each
    audit_clock,    \* the time datetime.utcnow() last returned
    written,        \* history: the lines as log_event wrote them
    tamper,         \* history: the one change made to the file afterwards
    handlers        \* how many FileHandlers the logger 'zednet.audit' has

auditVars == <<log_file, audit_clock, written, tamper, handlers>>

VARIABLES
    \* ---- KillSwitch.stop against the monitor thread (core/killswitch.py) ----
    monitor_pc,     \* where monitor_thread is: in the loop, probing, sleeping
    service,        \* which of IP_CHECK_SERVICES the probe is asking
    req_left,       \* seconds until the request in flight times out
    sleep_left,     \* seconds of time.sleep(check_interval) left
    stop_pc,        \* where the caller of stop() is
    join_left,      \* seconds of monitor_thread.join(timeout=5) left
    at_return       \* history: the callback and probe counts when stop() returned

stopVars == <<monitor_pc, service, req_left, sleep_left, stop_pc, join_left,
              at_return>>

VARIABLES
    \* ---- SiteDownloader._lookup_site_in_dht on a stored record ----
    last_resolve    \* history: the latest call, the key it asked the overlay for, its result

resolveVars == <<last_resolve>>

VARIABLES
    \* ---- AppController (core/app_controller.py) ----
    ctl_publisher,   \* whether AppController.publisher is set (None otherwise)
    ctl_downloader,  \* whether AppController.downloader is set
    ctl_forum,       \* whether AppController.forum_manager is set
    ctl_online,      \* AppController._online
    init_result,     \* what initialize() returned, once called
    delete_tick,     \* history: flips at every delete_my_site call
    last_delete      \* history: the latest delete_my_site call and its result

ctlVars == <<ctl_publisher, ctl_downloader, ctl_forum, ctl_online, init_result,
             delete_tick, last_delete>>

VARIABLES
    \* ---- SiteDownloader.add_site waiting in _lookup_site_in_dht ----
    lk,             \* the add_site call under way: its site and the wait loop's state
    last_add        \* history: the latest add_site call that returned

lookupVars == <<lk, last_add>>

VARIABLES
    \* ---- SiteDownloader.remove_site against a checker in _update_site ----
    session_torrents, \* the torrents of the libtorrent session, as handles
    handles_made,     \* how many torrents have been added to the session so far
    upd,              \* per site, where its update_checker thread is
    rm,               \* the remove_site call under way
    removed_since     \* history: sites remove_site returned for, no add_site since

removeVars == <<session_torrents, handles_made, upd, rm, removed_since>>

VARIABLES
    \* ---- rate_limit (server/local_server.py) ----
    request_times,  \* the dict client_ip -> list of the times of admitted requests
    clock,          \* what time.time() returns, in seconds
    worker,         \* per server thread, where it is inside decorated_function
    admitted        \* history: per time, how many requests were passed to a handler

rateVars == <<request_times, clock, worker, admitted>>

VARIABLES
    \* ---- ForumManager (core/forum_manager.py) ----
    forum_data,     \* forum_data["posts"], the list of posts
    forum_file,     \* the posts last written to forum_data.json
    posts_made,     \* how many posts add_post has created
    last_vote,      \* history: the latest vote call and its result
    last_merge      \* history: the latest merge_data call, the posts before it, its result

forumVars == <<forum_data, forum_file, posts_made, last_vote, last_merge>>

vars == <<ksVars, pubVars, dlVars, pathVars, idVars, serveVars, keyVars,
          auditVars, stopVars, resolveVars, ctlVars, lookupVars, removeVars,
          rateVars, forumVars>>

\* What each subsystem leaves alone.
notKS == <<pubVars, dlVars, pathVars, idVars, serveVars, keyVars, auditVars,
           stopVars, resolveVars, ctlVars, lookupVars, removeVars, rateVars,
           forumVars>>
notPub == <<ksVars, pathVars, idVars, serveVars, keyVars, auditVars,
            stopVars, resolveVars, ctlVars, lookupVars, removeVars, rateVars,
            forumVars>>
notDl == <<ksVars, pathVars, idVars, serveVars, keyVars, auditVars, stopVars,
           resolveVars, ctlVars, lookupVars, removeVars, rateVars, forumVars>>
notPath == <<ksVars, pubVars, dlVars, idVars, serveVars, keyVars, auditVars,
             stopVars, resolveVars, ctlVars, lookupVars, removeVars,
             rateVars, forumVars>>
notId == <<ksVars, pubVars, dlVars, pathVars, serveVars, keyVars, auditVars,
           stopVars, resolveVars, ctlVars, lookupVars, removeVars, rateVars,
           forumVars>>
notServe == <<ksVars, pubVars, dlVars, idVars, keyVars, auditVars, stopVars,
              resolveVars, ctlVars, lookupVars, removeVars, rateVars,
              forumVars>>
notKeys == <<ksVars, pubVars, dlVars, pathVars, idVars, serveVars, auditVars,
             stopVars, resolveVars, ctlVars, lookupVars, removeVars,
             rateVars, forumVars>>
notAudit == <<ksVars, pubVars, dlVars, pathVars, idVars, serveVars, keyVars,
              stopVars, resolveVars, ctlVars, lookupVars, removeVars,
              rateVars, forumVars>>
notStop == <<pubVars, dlVars, pathVars, idVars, serveVars, keyVars,
             auditVars, resolveVars, ctlVars, lookupVars, removeVars,
             rateVars, forumVars>>
notResolve == <<ksVars, dlVars, pathVars, idVars, serveVars, keyVars,
                auditVars, stopVars, ctlVars, lookupVars, removeVars,
                rateVars, forumVars>>
notCtl == <<ksVars, dlVars, pathVars, idVars, serveVars, keyVars, auditVars,
            stopVars, resolveVars, lookupVars, removeVars, rateVars,
            forumVars>>
notLookup == <<ksVars, pathVars, idVars, serveVars, keyVars, auditVars,
               stopVars, resolveVars, ctlVars, removeVars, rateVars,
               forumVars>>

None == "None"

(***************************************************************************)
(* KillSwitch                                                              *)
(***************************************************************************)

\* The number of probe ticks a behaviour of SpecKS runs.
MaxTicks == 4

\* What get_public_ip can return: nothing, an address in a private range,
\* or one of two public addresses.
PrivateIPs == {"192.168.1.1"}
PublicIPs == {"8.8.8.8", "1.1.1.1"}
ObservedIPs == {None} \cup PrivateIPs \cup PublicIPs

is_private_ip(ip) == ip \in PrivateIPs

\* VPNChecker.check_vpn_status, as a function of what get_public_ip returned.
check_vpn_status(public_ip) ==
    IF public_ip = None
    THEN [appears_safe |-> FALSE, public_ip |-> None]
    ELSE IF is_private_ip(public_ip)
         THEN [appears_safe |-> FALSE, public_ip |-> public_ip]
         ELSE [appears_safe |-> TRUE, public_ip |-> public_ip]

\* One probe: either the status of some observed address, or an exception.
ProbeRaised == [raised |-> TRUE]
ProbeOutcomes ==
    {ProbeRaised} \cup
    {[raised |-> FALSE, status |-> check_vpn_status(ip)] : ip \in ObservedIPs}

KSInit ==
    /\ is_running = FALSE
    /\ is_safe = FALSE
    /\ last_known_ip = None
    /\ on_emergency_shutdown = FALSE
    /\ shutdown_triggered = FALSE
    /\ audit_events = << >>
    /\ callback_calls = 0
    /\ probe_trace = << >>

\* KillSwitch.start: registers the callback and starts the monitor loop.
KSStart ==
    /\ on_emergency_shutdown' = TRUE
    /\ is_running' = TRUE
    /\ UNCHANGED <<is_safe, last_known_ip, shutdown_triggered, audit_events,
                   callback_calls, probe_trace>>
    /\ UNCHANGED notKS

\* KillSwitch.stop: the loop's condition turns false.
KSStop ==
    /\ is_running
    /\ is_running' = FALSE
    /\ UNCHANGED <<is_safe, last_known_ip, on_emergency_shutdown,
                   shutdown_triggered, audit_events, callback_calls, probe_trace>>
    /\ UNCHANGED notKS

\* The condition of line 80, evaluated after is_safe was assigned.
TriggerOnStatus_NoLatch(safe, triggered) == ~safe

TriggerOnStatus(safe, triggered) == ~safe /\ ~triggered

\* The condition of line 89, evaluated in the except branch: is_safe still
\* holds what the last successful probe (or __init__) assigned.
TriggerOnError(safe, triggered) == safe

\* The condition of line 70.
StatusChanged_SafetyOnly(was_safe, now_safe, current_ip, last_ip) ==
    was_safe # now_safe

StatusChanged(was_safe, now_safe, current_ip, last_ip) ==
    was_safe # now_safe \/ current_ip # last_ip

\* _trigger_emergency_shutdown: sets the latch, logs, invokes the callback.
TriggerEmergencyShutdown(events, reason) ==
    /\ shutdown_triggered' = TRUE
    /\ audit_events' = Append(events, [event |-> "EMERGENCY_SHUTDOWN", data |-> reason])
    /\ callback_calls' = IF on_emergency_shutdown THEN callback_calls + 1
                         ELSE callback_calls

\* _check_vpn_status for a given probe outcome.
CheckVpnStatus(outcome) ==
    /\ probe_trace' = Append(probe_trace, outcome)
    /\ UNCHANGED <<is_running, on_emergency_shutdown>>
    /\ IF outcome.raised
       THEN /\ UNCHANGED <<is_safe, last_known_ip>>
            /\ IF TriggerOnError(is_safe, shutdown_triggered)
               THEN TriggerEmergencyShutdown(audit_events, "error")
               ELSE UNCHANGED <<shutdown_triggered, audit_events, callback_calls>>
       ELSE LET status == outcome.status
                was_safe == is_safe
                now_safe == status.appears_safe
                current_ip == status.public_ip
                logged ==
                    IF StatusChanged(was_safe, now_safe, current_ip, last_known_ip)
                    THEN Append(audit_events,
                                [event |-> "VPN_STATUS_CHANGE",
                                 data |-> <<was_safe, now_safe,
                                            IF current_ip = None THEN "UNKNOWN"
                                            ELSE current_ip>>])
                    ELSE audit_events
            IN  /\ is_safe' = now_safe
                /\ last_known_ip' = current_ip
                /\ IF TriggerOnStatus(now_safe, shutdown_triggered)
                   THEN TriggerEmergencyShutdown(logged, "status")
                   ELSE /\ audit_events' = logged
                        /\ UNCHANGED <<shutdown_triggered, callback_calls>>

\* One tick of _monitor_loop, taken as a whole: the loop's test and the probe.
KSTick(outcome) ==
    /\ is_running
    /\ Len(probe_trace) < MaxTicks
    /\ CheckVpnStatus(outcome)
    /\ UNCHANGED notKS

KSNext ==
    \/ KSStart
    \/ KSStop
    \/ \E outcome \in ProbeOutcomes : KSTick(outcome)

\* ---- the other subsystems at rest ----

Sites == {"s1", "s2"}
Threads == {"t1", "t2"}

\* Python dicts are functions whose domain is the set of keys present.
EmptyDict == [k \in {} |-> None]
DictSet(d, key, value) == [k \in DOMAIN d \cup {key} |-> IF k = key THEN value ELSE d[k]]
DictDel(d, key) == [k \in DOMAIN d \ {key} |-> d[k]]

NoRecord == [version |-> 0, public_key |-> None, content_hash |-> None, info_hash |-> None]
NoItem == [k |-> None, ih |-> None, seq |-> 0, sig |-> [by |-> None, over |-> None]]
NoResponse == [received |-> FALSE, idx |-> 0, item |-> NoItem]
NoLookup == [site |-> None, resp |-> NoResponse, result |-> None, prior |-> 0]
NoUpdate == [site |-> None, old_hash |-> None, new_hash |-> None,
             old |-> [seq |-> 0, idx |-> 0], new |-> [seq |-> 0, idx |-> 0],
             callback |-> FALSE]
IdleThread == [pc |-> "idle", site |-> None, info_hash |-> None, local |-> NoRecord]

PubInit ==
    /\ metadata = EmptyDict
    /\ key_files = {}
    /\ dht_puts = << >>
    /\ active_sites = EmptyDict
    /\ pub = [t \in Threads |-> IdleThread]
    /\ pub_history = << >>

DlInit ==
    /\ active_downloads = EmptyDict
    /\ update_callbacks = {}
    /\ checkers = [s \in Sites |-> 0]
    /\ observed = EmptyDict
    /\ accepted = [s \in Sites |-> 0]
    /\ lookups = 0
    /\ last_lookup = NoLookup
    /\ last_update = NoUpdate
    /\ stale = [s \in Sites |-> 0]

\* No path has been requested: sanitize_path has not been called.
n_s == <<115>>
PlainSandbox == [base |-> <<n_s>>, absolute |-> TRUE, links |-> {}]
NotCalled == [kind |-> "not called", path |-> << >>]
PathInit ==
    /\ user_path = << >>
    /\ segments = 0
    /\ sandbox = PlainSandbox
    /\ sanitized = NotCalled
    /\ fs_calls = 0

\* No site id has been validated.
NoSiteId == [is_str |-> FALSE, chars |-> << >>]
IdInit ==
    /\ site_id_arg = NoSiteId
    /\ id_result = "not called"

\* No request has been served.
NotServed == [status |-> 0, file_bytes |-> FALSE]
ServeInit ==
    /\ req_site_id = << >>
    /\ site_dir_exists = FALSE
    /\ logger_present = FALSE
    /\ served_kind = "unknown"
    /\ response = NotServed
    /\ serve_audit = << >>

\* No key file has been written, no key loaded.
NoBytes == [kind |-> None, key |-> None, under |-> None]
NoLoad == [site |-> None, password |-> None, outcome |-> "not called",
           file |-> NoBytes, data |-> NoBytes]
KeysInit ==
    /\ key_store = EmptyDict
    /\ saving = None
    /\ saved = EmptyDict
    /\ last_load = NoLoad
    /\ key_ops = 0

\* AuditLogger.__init__: the first line of the log is the AUDIT_START event
\* (line 36).  The hash of a line is written as the sequence of the event
\* contents it was computed over.
AuditContent(timestamp, event_type, data) ==
    [timestamp |-> timestamp, event |-> event_type, data |-> data]
HashOf(content) == <<content>>
AuditLine(content) == [content |-> content, hash |-> HashOf(content)]
AuditInit ==
    /\ log_file = <<AuditLine(AuditContent(0, "AUDIT_START", "version 1.0"))>>
    /\ audit_clock = 0
    /\ written = log_file
    /\ tamper = "none"
    /\ handlers = 1

\* AppController.__init__: no component yet, offline.
NoDelete == [site |-> None, delete_key |-> FALSE, result |-> "not called"]
CtlInit ==
    /\ ctl_publisher = FALSE
    /\ ctl_downloader = FALSE
    /\ ctl_forum = FALSE
    /\ ctl_online = FALSE
    /\ init_result = "not called"
    /\ delete_tick = FALSE
    /\ last_delete = NoDelete

\* No add_site call is under way, none has returned.
NoWait == [pc |-> "idle", site |-> None, auto_update |-> FALSE,
           elapsed |-> 0, received |-> FALSE]
NoAdd == [site |-> None, result |-> "not called", address |-> None,
          waited |-> FALSE, timed_out |-> FALSE, overrun |-> 0,
          received |-> FALSE]
LookupInit ==
    /\ lk = NoWait
    /\ last_add = NoAdd

\* No torrent in the session, no update checker, no remove_site call.
NoChecker == [pc |-> "none", old_handle |-> None, auto_update |-> FALSE,
              new_hash |-> None, new_handle |-> None]
NoRemove == [pc |-> "idle", site |-> None, handle |-> None]
RemoveInit ==
    /\ session_torrents = {}
    /\ handles_made = 0
    /\ upd = [s \in Sites |-> NoChecker]
    /\ rm = NoRemove
    /\ removed_since = {}

\* No request has been made; the server's threads are idle.
ServerThreads == {"w1", "w2"}
IdleWorker == [pc |-> "idle", current_time |-> 0]
RateInit ==
    /\ request_times = EmptyDict
    /\ clock = 0
    /\ worker = [w \in ServerThreads |-> IdleWorker]
    /\ admitted = [t \in {} |-> 0]

\* ForumManager.__init__ without a forum file: {"posts": []}.
NoVote == [post_id |-> None, user_id |-> None, direction |-> None,
           moved |-> FALSE, result |-> "not called"]
NoMerge == [has_posts |-> FALSE, posts |-> << >>, before |-> << >>,
            repeated |-> FALSE, result |-> "not called"]
ForumInit ==
    /\ forum_data = << >>
    /\ forum_file = << >>
    /\ posts_made = 0
    /\ last_vote = NoVote
    /\ last_merge = NoMerge

\* _lookup_site_in_dht has not been called.
NoResolve == [site |-> None, key |-> None, result |-> None]
ResolveInit == last_resolve = NoResolve

\* No monitor thread has been started, stop() has not been called.
StopInit ==
    /\ monitor_pc = "none"
    /\ service = 0
    /\ req_left = 0
    /\ sleep_left = 0
    /\ stop_pc = "idle"
    /\ join_left = 0
    /\ at_return = [calls |-> 0, ticks |-> 0]

InitKS == KSInit /\ PubInit /\ DlInit /\ PathInit /\ IdInit /\ ServeInit /\ KeysInit /\ AuditInit /\ StopInit /\ ResolveInit /\ CtlInit /\ LookupInit /\ RemoveInit /\ RateInit /\ ForumInit

SpecKS == InitKS /\ [][KSNext]_vars

\* ---- history predicates over probe_trace ----

AnyProbeRaised == \E i \in 1..Len(probe_trace) : probe_trace[i].raised

UnsafeObserved ==
    \E i \in 1..Len(probe_trace) :
        ~probe_trace[i].raised /\ ~probe_trace[i].status.appears_safe

\* C1: while every probe so far returned a status, the callback has been
\* invoked exactly once if some tick observed appears_safe = False (so it was
\* invoked on the first such tick and on no later one), and not at all
\* otherwise.
C1_CallbackOnceOnFirstUnsafe ==
    ~AnyProbeRaised =>
        callback_calls = IF UnsafeObserved THEN 1 ELSE 0

\* A safe tick between two unsafe ticks, all returning a status.
C1_Witness ==
    /\ ~AnyProbeRaised
    /\ \E i, j, k \in 1..Len(probe_trace) :
          /\ i < j /\ j < k
          /\ ~probe_trace[i].status.appears_safe
          /\ probe_trace[j].status.appears_safe
          /\ ~probe_trace[k].status.appears_safe
    /\ callback_calls = 1

\* C2: once a probe has raised, the monitor is in the unsafe state and the
\* callback has fired exactly once.
C2_ProbeFailureFailsClosed ==
    AnyProbeRaised => (~is_safe /\ callback_calls = 1)

(***************************************************************************)
(* SiteStorage and SitePublisher                                           *)
(***************************************************************************)

\* How many publish_site calls a behaviour of SpecPub makes.
MaxPublishes == 2

\* The content directories a site is published from, by their content.
Contents == {"c1", "c2"}

\* torrent_info.info_hash(): the content address of a packaged directory.
InfoHashOf(content) == IF content = "c1" THEN "h1" ELSE "h2"

\* generate_keypair / derive_site_id: each site has its own key pair, and
\* its site_id is the hash of the public key.
PublicKeyOf(site) == IF site = "s1" THEN "pk1" ELSE "pk2"

\* The 'seq' of the item built in _publish_to_dht.
ItemSeq == 1

\* The version create_site stores.
InitialVersion == 1

\* The item _publish_to_dht builds: the value carries the info hash, the
\* signature is made with the site's private key over that value.
DhtItem(site, info_hash) ==
    [k |-> PublicKeyOf(site), ih |-> info_hash, seq |-> ItemSeq,
     sig |-> [by |-> PublicKeyOf(site), over |-> info_hash]]

PubCalls == {i \in 1..Len(pub_history) : pub_history[i].ev = "call"}

\* History events: a call of publish_site, and its return with the result
\* and the step it returned from.
CallEvent(t, site, info_hash) ==
    [ev |-> "call", thread |-> t, site |-> site, info_hash |-> info_hash,
     ok |-> TRUE, at |-> "call"]

ReturnEvent(t, ok) ==
    [ev |-> "ret", thread |-> t, site |-> pub[t].site,
     info_hash |-> pub[t].info_hash, ok |-> ok, at |-> pub[t].pc]

\* publish_site returns: the thread is idle again, the result is recorded.
PubReturn(t, ok) ==
    /\ pub' = [pub EXCEPT ![t] = IdleThread]
    /\ pub_history' = Append(pub_history, ReturnEvent(t, ok))

\* SitePublisher.create_site: a fresh key pair, hence a site_id not seen
\* before; saves the key file and the first metadata record.
CreateSite(site) ==
    /\ site \notin DOMAIN metadata
    /\ site \notin key_files
    /\ key_files' = key_files \cup {site}
    /\ metadata' = DictSet(metadata, site,
          [version |-> InitialVersion, public_key |-> PublicKeyOf(site),
           content_hash |-> None, info_hash |-> None])
    /\ UNCHANGED <<dht_puts, active_sites, pub, pub_history>>
    /\ UNCHANGED <<notPub, dlVars>>

\* publish_site, lines 99-109: load the private key (raises when the key
\* file is missing or the password is wrong), package the directory.
PubCall(t, site, content, password_ok) ==
    /\ pub[t].pc = "idle"
    /\ Cardinality(PubCalls) < MaxPublishes
    /\ LET ih == InfoHashOf(content)
           called == Append(pub_history, CallEvent(t, site, ih))
       IN  IF site \in key_files /\ password_ok
           THEN /\ pub' = [pub EXCEPT ![t] =
                      [pc |-> "put", site |-> site, info_hash |-> ih, local |-> NoRecord]]
                /\ pub_history' = called
           ELSE /\ pub' = pub
                /\ pub_history' = Append(called,
                      [ev |-> "ret", thread |-> t, site |-> site,
                       info_hash |-> ih, ok |-> FALSE, at |-> "key"])
    /\ UNCHANGED <<metadata, key_files, dht_puts, active_sites>>
    /\ UNCHANGED <<notPub, dlVars>>

\* The metadata store after the except branch (lines 132-134) of a call
\* whose put raised: the update of lines 123-127 was never reached.
MetadataAfterFailedPut_Advanced(t) ==
    DictSet(metadata, pub[t].site,
            [metadata[pub[t].site] EXCEPT !.version = @ + 1])

MetadataAfterFailedPut(t) == metadata

\* publish_site, lines 112-117: _publish_to_dht puts the signed item; when
\* the put raises, publish_site returns False (line 132).
PubPut(t, put_ok) ==
    /\ pub[t].pc = "put"
    /\ IF put_ok
       THEN /\ dht_puts' = Append(dht_puts, DhtItem(pub[t].site, pub[t].info_hash))
            /\ pub' = [pub EXCEPT ![t].pc = "seed"]
            /\ UNCHANGED <<pub_history, metadata>>
       ELSE /\ PubReturn(t, FALSE)
            /\ metadata' = MetadataAfterFailedPut(t)
            /\ UNCHANGED dht_puts
    /\ UNCHANGED <<key_files, active_sites>>
    /\ UNCHANGED <<notPub, dlVars>>

\* publish_site, line 120: _start_seeding records the site as seeded.
PubSeed(t) ==
    /\ pub[t].pc = "seed"
    /\ active_sites' = DictSet(active_sites, pub[t].site, pub[t].info_hash)
    /\ pub' = [pub EXCEPT ![t].pc = "load"]
    /\ UNCHANGED <<metadata, key_files, dht_puts, pub_history>>
    /\ UNCHANGED <<notPub, dlVars>>

\* publish_site, line 123: load_site_metadata into a local dict; None (no
\* record) makes line 124 raise, and publish_site returns False.
PubLoad(t) ==
    /\ pub[t].pc = "load"
    /\ IF pub[t].site \notin DOMAIN metadata
       THEN PubReturn(t, FALSE)
       ELSE /\ pub' = [pub EXCEPT ![t].pc = "save",
                                  ![t].local = metadata[pub[t].site]]
            /\ UNCHANGED pub_history
    /\ UNCHANGED <<metadata, key_files, dht_puts, active_sites>>
    /\ UNCHANGED <<notPub, dlVars>>

\* The record lines 124-126 build from the loaded one.
UpdatedMetadata_KeepsHash(local, info_hash) ==
    [local EXCEPT !.version = local.version + 1,
                  !.info_hash = IF @ = None THEN info_hash ELSE @]

UpdatedMetadata(local, info_hash) ==
    [local EXCEPT !.version = local.version + 1, !.info_hash = info_hash]

\* publish_site, lines 124-130: bump the version of the local dict, save it,
\* return True.
PubSave(t) ==
    /\ pub[t].pc = "save"
    /\ metadata' = DictSet(metadata, pub[t].site,
                            UpdatedMetadata(pub[t].local, pub[t].info_hash))
    /\ PubReturn(t, TRUE)
    /\ UNCHANGED <<key_files, dht_puts, active_sites>>
    /\ UNCHANGED <<notPub, dlVars>>

PubNext ==
    \/ \E site \in Sites : CreateSite(site)
    \/ \E t \in Threads, site \in Sites, content \in Contents, ok \in BOOLEAN :
          PubCall(t, site, content, ok)
    \/ \E t \in Threads, ok \in BOOLEAN : PubPut(t, ok)
    \/ \E t \in Threads : PubSeed(t)
    \/ \E t \in Threads : PubLoad(t)
    \/ \E t \in Threads : PubSave(t)

InitPub == KSInit /\ PubInit /\ DlInit /\ PathInit /\ IdInit /\ ServeInit /\ KeysInit /\ AuditInit /\ StopInit /\ ResolveInit /\ CtlInit /\ LookupInit /\ RemoveInit /\ RateInit /\ ForumInit

SpecPub == InitPub /\ [][PubNext]_vars

\* ---- history predicates over pub_history and dht_puts ----

Quiescent == \A t \in Threads : pub[t].pc = "idle"

Returns(site) ==
    {i \in 1..Len(pub_history) :
        pub_history[i].ev = "ret" /\ pub_history[i].site = site}

Successes(site) == {i \in Returns(site) : pub_history[i].ok}

LastSuccess(site) == CHOOSE i \in Successes(site) : \A j \in Successes(site) : j <= i

\* The publish_site calls for a site ran one after another: between two calls
\* the earlier one returned.
Sequential(site) ==
    \A i, j \in 1..Len(pub_history) :
        ( /\ i < j
          /\ pub_history[i].ev = "call" /\ pub_history[i].site = site
          /\ pub_history[j].ev = "call" /\ pub_history[j].site = site )
        => \E k \in (i + 1)..(j - 1) :
              /\ pub_history[k].ev = "ret"
              /\ pub_history[k].thread = pub_history[i].thread

PutsOf(site) == {i \in 1..Len(dht_puts) : dht_puts[i].k = PublicKeyOf(site)}

\* C3: when every publish_site call so far has returned True, each pointer
\* put to the overlay for a site carries a strictly greater sequence than
\* every pointer put earlier for that site.
C3_PublishedSequenceIncreases ==
    ( /\ Quiescent
      /\ \A s \in Sites : Returns(s) = Successes(s) )
    => \A s \in Sites : \A i, j \in PutsOf(s) :
          i < j => dht_puts[j].seq > dht_puts[i].seq

\* C6: no lost update: once all publish_site calls have returned, the stored
\* sequence of a site has advanced by the number of calls that returned True,
\* also when calls ran concurrently.
C6_NoLostUpdate ==
    Quiescent =>
        \A s \in DOMAIN metadata :
            metadata[s].version = InitialVersion + Cardinality(Successes(s))

\* The step in which publish_site returns False because the overlay put raised.
PutFailed(t) == pub[t].pc = "put" /\ pub'[t].pc = "idle"

\* C7 as stated: across a failed overlay put the stored sequence of the site
\* has been advanced.
C7_FailedPutAdvancesSequence ==
    [][\A t \in Threads :
          PutFailed(t) =>
              metadata'[pub[t].site].version > metadata[pub[t].site].version]_vars

\* C7 as amended: a publish_site call whose overlay put fails leaves the
\* stored metadata of every site, the sequence included, exactly as it was:
\* neither advanced nor rolled back.
C7_FailedPutLeavesSequence ==
    [][\A t \in Threads : PutFailed(t) => metadata' = metadata]_vars

\* A publish whose put failed, on a site that was published before.
C7_Witness ==
    \E i \in 1..Len(pub_history) :
        /\ pub_history[i].ev = "ret" /\ ~pub_history[i].ok
        /\ pub_history[i].at = "put"
        /\ \E j \in 1..(i - 1) :
              /\ pub_history[j].ev = "ret" /\ pub_history[j].ok
              /\ pub_history[j].site = pub_history[i].site
        /\ metadata[pub_history[i].site].version = InitialVersion + 1

MaxLookups == 2

\* An item nobody holding the site's private key made: another info hash, a
\* higher sequence, signed with some other key.
ForgedItem(site) ==
    [k |-> PublicKeyOf(site), ih |-> "h_forged", seq |-> ItemSeq + 1,
     sig |-> [by |-> "pk_other", over |-> "h_forged"]]

\* Ed25519 verification of an item's signature under a public key.
SignatureVerifies(item, public_key) ==
    item.sig.by = public_key /\ item.sig.over = item.ih

\* What session.dht_get_item can deliver for a site within the timeout:
\* nothing, any item that was ever put under the site's key (position idx in
\* dht_puts: the overlay may replay an old one), or a forged item (idx 0).
Responses(site) ==
    {NoResponse} \cup
    {[received |-> TRUE, idx |-> i, item |-> dht_puts[i]] :
        i \in {j \in 1..Len(dht_puts) : dht_puts[j].k = PublicKeyOf(site)}} \cup
    {[received |-> TRUE, idx |-> 0, item |-> ForgedItem(site)]}

\* dht_callback, lines 94-100: which delivered items set result['received'].
CallbackAccepts(site, item) == TRUE

\* _lookup_site_in_dht: None without a stored public key (line 81), None on
\* timeout (line 122), else the info hash of whatever item arrived.
LookupSiteInDht(site, resp) ==
    IF site \notin DOMAIN metadata THEN None
    ELSE IF ~resp.received THEN None
    ELSE IF ~CallbackAccepts(site, resp.item) THEN None
    ELSE resp.item.ih

\* The record of one lookup: what arrived, what was returned, and the highest
\* sequence earlier lookups of the site had returned an address for.
Lookup(site, resp) ==
    LET result == LookupSiteInDht(site, resp)
    IN  /\ lookups' = lookups + 1
        /\ last_lookup' = [site |-> site, resp |-> resp, result |-> result,
                           prior |-> accepted[site]]
        /\ accepted' = IF result # None /\ resp.item.seq > accepted[site]
                       THEN [accepted EXCEPT ![site] = resp.item.seq]
                       ELSE accepted

\* _start_download, lines 159-168: store the entry; with auto_update start
\* one more update_checker thread.
StartDownload(site, info_hash, auto_update, resp) ==
    /\ active_downloads' = DictSet(active_downloads, site,
                               [info_hash |-> info_hash, auto_update |-> auto_update])
    /\ checkers' = [checkers EXCEPT ![site] = IF auto_update THEN @ + 1 ELSE @]
    /\ observed' = DictSet(observed, site, [seq |-> resp.item.seq, idx |-> resp.idx])

\* add_site for a valid site_id.
AddSite(site, auto_update, resp) ==
    /\ UNCHANGED <<update_callbacks, last_update, stale>>
    /\ UNCHANGED <<notDl, pubVars>>
    /\ IF site \in DOMAIN active_downloads
       THEN UNCHANGED <<active_downloads, checkers, observed, accepted, lookups,
                        last_lookup>>
       ELSE /\ lookups < MaxLookups
            /\ resp \in Responses(site)
            /\ Lookup(site, resp)
            /\ IF LookupSiteInDht(site, resp) = None
               THEN UNCHANGED <<active_downloads, checkers, observed>>
               ELSE StartDownload(site, LookupSiteInDht(site, resp), auto_update, resp)

\* The comparison of line 200.
UpdateDetected(site, resp) ==
    LookupSiteInDht(site, resp) # active_downloads[site].info_hash

\* One iteration of update_checker (lines 183-207) after its sleep: look the
\* site up; when the hash differs from the tracked one, _update_site and the
\* registered callback.
MonitorTick(site, resp) ==
    /\ checkers[site] > 0
    /\ site \in DOMAIN active_downloads
    /\ lookups < MaxLookups
    /\ resp \in Responses(site)
    /\ Lookup(site, resp)
    /\ UNCHANGED <<update_callbacks, stale>>
    /\ UNCHANGED <<notDl, pubVars>>
    /\ IF LookupSiteInDht(site, resp) # None /\ UpdateDetected(site, resp)
       THEN /\ StartDownload(site, LookupSiteInDht(site, resp),
                             active_downloads[site].auto_update, resp)
            /\ last_update' =
                  [site |-> site,
                   old_hash |-> active_downloads[site].info_hash,
                   new_hash |-> LookupSiteInDht(site, resp),
                   old |-> observed[site],
                   new |-> [seq |-> resp.item.seq, idx |-> resp.idx],
                   callback |-> site \in update_callbacks]
       ELSE UNCHANGED <<active_downloads, checkers, observed, last_update>>

\* update_checker leaves its loop once the site is no longer tracked.
CheckerExit(site) ==
    /\ checkers[site] > 0
    /\ site \notin DOMAIN active_downloads
    /\ checkers' = [checkers EXCEPT ![site] = @ - 1]
    /\ stale' = [stale EXCEPT ![site] = IF @ > 0 THEN @ - 1 ELSE @]
    /\ UNCHANGED <<active_downloads, update_callbacks, observed, accepted, lookups,
                   last_lookup, last_update>>
    /\ UNCHANGED <<notDl, pubVars>>

\* remove_site.
RemoveSite(site) ==
    /\ site \in DOMAIN active_downloads
    /\ active_downloads' = DictDel(active_downloads, site)
    /\ observed' = DictDel(observed, site)
    /\ stale' = [stale EXCEPT ![site] = checkers[site]]
    /\ UNCHANGED <<update_callbacks, checkers, accepted, lookups, last_lookup,
                   last_update>>
    /\ UNCHANGED <<notDl, pubVars>>

\* register_update_callback.
RegisterUpdateCallback(site) ==
    /\ update_callbacks' = update_callbacks \cup {site}
    /\ UNCHANGED <<active_downloads, checkers, observed, accepted, lookups,
                   last_lookup, last_update, stale>>
    /\ UNCHANGED <<notDl, pubVars>>

\* The downloader next to one publishing thread.
DlNext ==
    \/ \E site \in Sites : CreateSite(site)
    \/ \E site \in Sites, content \in Contents, ok \in BOOLEAN :
          PubCall("t1", site, content, ok)
    \/ \E ok \in BOOLEAN : PubPut("t1", ok)
    \/ PubSeed("t1")
    \/ PubLoad("t1")
    \/ PubSave("t1")
    \/ \E site \in Sites, auto \in BOOLEAN :
          \E resp \in Responses(site) : AddSite(site, auto, resp)
    \/ \E site \in Sites : \E resp \in Responses(site) : MonitorTick(site, resp)
    \/ \E site \in Sites : CheckerExit(site)
    \/ \E site \in Sites : RemoveSite(site)
    \/ \E site \in Sites : RegisterUpdateCallback(site)

InitDl == KSInit /\ PubInit /\ DlInit /\ PathInit /\ IdInit /\ ServeInit /\ KeysInit /\ AuditInit /\ StopInit /\ ResolveInit /\ CtlInit /\ LookupInit /\ RemoveInit /\ RateInit /\ ForumInit

SpecDl == InitDl /\ [][DlNext]_vars

\* C4: a lookup returns a bundle address only for an item whose signature
\* verifies under the site's public key and whose sequence is greater than
\* the highest sequence already accepted for the site.
C4_ResolverVerifiesSignatureAndSequence ==
    last_lookup.result # None =>
        /\ SignatureVerifies(last_lookup.resp.item, PublicKeyOf(last_lookup.site))
        /\ last_lookup.resp.item.seq > last_lookup.prior

\* An overlay item published before the one a site is tracked at.
IsReplay(update) == 0 < update.new.idx /\ update.new.idx < update.old.idx

\* C5: the update checker replaces the tracked bundle (and runs the callback)
\* only for a pointer with a strictly greater sequence than the one observed,
\* and never for a replayed older pointer.
C5_UpdateOnlyOnGreaterSequence ==
    last_update.site # None =>
        /\ last_update.new.seq > last_update.old.seq
        /\ ~IsReplay(last_update)

\* C22: an update checker that was running for a site when remove_site
\* returned never finds the site in active_downloads again: the next test
\* of its loop ends it, so that it makes no further overlay lookup, update
\* or callback invocation -- also when the site is added again.
C22_RemovedSiteCheckerStops ==
    \A s \in Sites : stale[s] > 0 => s \notin DOMAIN active_downloads

\* An item a verifying resolver has to turn down: its signature does not
\* verify under the site's key, or its sequence is not above the highest one
\* already accepted for the site.
FailsVerification(lookup) ==
    /\ lookup.resp.received
    /\ \/ ~SignatureVerifies(lookup.resp.item, PublicKeyOf(lookup.site))
       \/ lookup.resp.item.seq <= lookup.prior

\* The SiteDownloader holds a session and a storage (lines 20-24) and no
\* AuditLogger: the events on the audit log that are security violations.
SecurityViolationsLogged ==
    {n \in 1..Len(log_file) : log_file[n].content.event = "SECURITY_VIOLATION"}

\* C26: when a lookup received an item whose signature does not verify or
\* whose sequence is stale, the item was rejected (the lookup returned no
\* address) and a SECURITY_VIOLATION event is on the audit log.
C26_RejectionIsAudited ==
    (last_lookup.site \in DOMAIN metadata /\ FailsVerification(last_lookup)) =>
        /\ last_lookup.result = None
        /\ SecurityViolationsLogged # {}

(***************************************************************************)
(* SecurityManager.sanitize_path                                           *)
(*                                                                         *)
(* A string is the sequence of its code points: 46 is '.', 47 '/', 92 '\', *)
(* 37 '%', 0 NUL, 10 LF, 32 space.  A filesystem path is the sequence of   *)
(* its component names, the empty sequence being the root.                 *)
(***************************************************************************)

\* How many segments a requested path is composed of.
MaxSegs == 3

\* How many symbolic links a resolution follows before it gives up (ELOOP).
MaxLinkHops == 4

\* SecurityManager.ALLOWED_EXTENSIONS.
ALLOWED_EXTENSIONS ==
    {<<46, 104, 116, 109, 108>>,
     <<46, 104, 116, 109>>,
     <<46, 99, 115, 115>>,
     <<46, 106, 115>>,
     <<46, 106, 115, 111, 110>>,
     <<46, 116, 120, 116>>,
     <<46, 109, 100>>,
     <<46, 112, 110, 103>>,
     <<46, 106, 112, 103>>,
     <<46, 106, 112, 101, 103>>,
     <<46, 103, 105, 102>>,
     <<46, 115, 118, 103>>,
     <<46, 119, 101, 98, 112>>,
     <<46, 105, 99, 111>>,
     <<46, 119, 111, 102, 102>>,
     <<46, 119, 111, 102, 102, 50>>,
     <<46, 116, 116, 102>>,
     <<46, 111, 116, 102>>,
     <<46, 101, 111, 116>>,
     <<46, 120, 109, 108>>,
     <<46, 112, 100, 102>>,
     <<46, 109, 112, 51>>,
     <<46, 109, 112, 52>>,
     <<46, 119, 101, 98, 109>>,
     <<46, 111, 103, 103>>}

\* ---- the strings a client composes a request from ----

\* Segments: a name, a file name with an allowed extension, '..' raw,
\* URL-encoded once ('%2e%2e') and twice ('%252e%252e'), and the empty one.
SegTokens ==
    {<<97>>, <<97, 46, 106, 115>>, <<46, 46>>, <<37, 50, 101, 37, 50, 101>>, <<37, 50, 53, 50, 101, 37, 50, 53, 50, 101>>, << >>}

\* Separators: '/', '\' and the URL-encoded '/' ('%2f').
SepTokens == {<<47>>, <<92>>, <<37, 50, 102>>}

\* ---- the filesystems a request is resolved in ----

\* Component names.
DotDot == <<46, 46>>
Dot == <<46>>
n_o == <<111>>
n_r == <<114>>
n_d == <<100>>
n_e == <<101>>
n_a == <<97>>
n_ajs == <<97, 46, 106, 115>>
n_djs == <<100, 46, 106, 115>>
n_ash == <<97, 46, 115, 104>>

\* base_dir as given, whether it is an absolute path, and the symbolic links:
\* where each one is, and the components of its target (absolute or relative
\* to the directory the link is in).
\* A directory link staying inside the sandbox: /s/a -> d.js/e.
LinkInsideSandbox ==
    [base |-> <<n_s>>, absolute |-> TRUE,
     links |-> {[at |-> <<n_s, n_a>>, abs |-> FALSE, to |-> <<n_djs, n_e>>]}]

\* A file link with an allowed name to a shell script: /s/a.js -> a.sh.
ScriptLinkSandbox ==
    [base |-> <<n_s>>, absolute |-> TRUE,
     links |-> {[at |-> <<n_s, n_ajs>>, abs |-> FALSE, to |-> <<n_ash>>]}]

Sandboxes ==
    { \* a plain directory tree
      PlainSandbox,
      \* a directory link leaving the sandbox: /s/a -> /o
      [base |-> <<n_s>>, absolute |-> TRUE,
       links |-> {[at |-> <<n_s, n_a>>, abs |-> TRUE, to |-> <<n_o>>]}],
      \* a file link leaving the sandbox: /s/a.js -> ../o/a.js
      [base |-> <<n_s>>, absolute |-> TRUE,
       links |-> {[at |-> <<n_s, n_ajs>>, abs |-> FALSE, to |-> <<DotDot, n_o, n_ajs>>]}],
      LinkInsideSandbox,
      \* base_dir is itself a link, /s -> /r, and /r/a -> /s/d leads back in
      [base |-> <<n_s>>, absolute |-> TRUE,
       links |-> {[at |-> <<n_s>>, abs |-> TRUE, to |-> <<n_r>>],
                  [at |-> <<n_r, n_a>>, abs |-> TRUE, to |-> <<n_s, n_d>>]}],
      \* a link to itself: /s/a -> /s/a
      [base |-> <<n_s>>, absolute |-> TRUE,
       links |-> {[at |-> <<n_s, n_a>>, abs |-> TRUE, to |-> <<n_s, n_a>>]}],
      \* a relative base_dir
      [base |-> <<n_s>>, absolute |-> FALSE, links |-> {}] }

\* ---- str methods ----

RECURSIVE LStrip(_, _)
LStrip(str, chars) ==
    IF str # << >> /\ Head(str) \in chars THEN LStrip(Tail(str), chars) ELSE str

RECURSIVE RStrip(_, _)
RStrip(str, chars) ==
    IF str # << >> /\ str[Len(str)] \in chars
    THEN RStrip(SubSeq(str, 1, Len(str) - 1), chars)
    ELSE str

\* str.strip(chars).
Strip(str, chars) == RStrip(LStrip(str, chars), chars)

\* The code points str.strip() removes, among those below 256.
Whitespace == {9, 10, 11, 12, 13, 28, 29, 30, 31, 32, 133, 160}

StartsWith(str, c) == str # << >> /\ Head(str) = c

IsAsciiLetter(c) == (c >= 65 /\ c <= 90) \/ (c >= 97 /\ c <= 122)
IsDigit(c) == c >= 48 /\ c <= 57

\* re.match(r'^[a-zA-Z]:\\', user_path).
MatchesDriveLetter(str) ==
    Len(str) >= 3 /\ IsAsciiLetter(str[1]) /\ str[2] = 58 /\ str[3] = 92

Contains(str, c) == \E i \in 1..Len(str) : str[i] = c

\* ---- urllib.parse.unquote ----

\* The value of a hexadecimal digit, -1 for any other character.
HexVal(c) ==
    IF IsDigit(c) THEN c - 48
    ELSE IF c >= 97 /\ c <= 102 THEN c - 87
    ELSE IF c >= 65 /\ c <= 70 THEN c - 55
    ELSE 0 - 1

\* The character a decoded byte becomes: itself below 128; a byte from 128
\* on is decoded as UTF-8 with errors='replace' and becomes U+FFFD (or part
\* of some other non-ASCII character).
DecodedByte(b) == IF b < 128 THEN b ELSE 65533

RECURSIVE UnquoteFrom(_, _)
UnquoteFrom(str, i) ==
    IF i > Len(str) THEN << >>
    ELSE IF /\ str[i] = 37
            /\ i + 2 <= Len(str)
            /\ HexVal(str[i + 1]) >= 0
            /\ HexVal(str[i + 2]) >= 0
         THEN <<DecodedByte(16 * HexVal(str[i + 1]) + HexVal(str[i + 2]))>>
                  \o UnquoteFrom(str, i + 3)
         ELSE <<str[i]>> \o UnquoteFrom(str, i + 1)

\* unquote(string): every %XX escape replaced by its character, once.
Unquote(str) == UnquoteFrom(str, 1)

\* ---- splitting and validating the components (lines 119-126) ----

\* str.replace('\\', '/').
BackslashToSlash(str) == [i \in 1..Len(str) |-> IF str[i] = 92 THEN 47 ELSE str[i]]

\* str.split('/'): the segments between the slashes, n + 1 of them for n
\* slashes.
RECURSIVE SplitFrom(_, _, _)
SplitFrom(str, i, current) ==
    IF i > Len(str) THEN <<current>>
    ELSE IF str[i] = 47 THEN <<current>> \o SplitFrom(str, i + 1, << >>)
    ELSE SplitFrom(str, i + 1, Append(current, str[i]))

Split(str) == SplitFrom(str, 1, << >>)

\* The character class of SAFE_FILENAME_PATTERN: [a-zA-Z0-9_\-\.].
IsSafeChar(c) == IsAsciiLetter(c) \/ IsDigit(c) \/ c = 95 \/ c = 45 \/ c = 46

\* SAFE_FILENAME_PATTERN.match(part): one or more safe characters up to the
\* end of the string, where '$' also matches just before a final newline.
MatchesSafeFilename(part) ==
    \/ /\ Len(part) >= 1
       /\ \A i \in 1..Len(part) : IsSafeChar(part[i])
    \/ /\ Len(part) >= 2
       /\ part[Len(part)] = 10
       /\ \A i \in 1..(Len(part) - 1) : IsSafeChar(part[i])

\* part in ('', '.', '..'), line 121.
IsSpecialPart_DotDotForgotten(part) == part \in {<< >>, Dot}

IsSpecialPart(part) == part \in {<< >>, Dot, DotDot}

ValidParts(parts) ==
    \A i \in 1..Len(parts) :
        ~IsSpecialPart(parts[i]) /\ MatchesSafeFilename(parts[i])

\* ---- pathlib ----

IsPrefix(p, q) == Len(p) <= Len(q) /\ SubSeq(q, 1, Len(p)) = p

LinkAt(links, path) == {l \in links : l.at = path}

\* Path.resolve(strict=False): walks the components left to right; '..' goes
\* to the parent of what is resolved so far, a symbolic link is replaced by
\* its target, any other name (existing or not) is appended.  Too many links
\* in a row is a symlink loop, which resolve reports by raising.
RECURSIVE ResolveFrom(_, _, _, _)
ResolveFrom(links, done, rest, hops) ==
    IF rest = << >> THEN [ok |-> TRUE, path |-> done]
    ELSE LET c == Head(rest) IN
         IF c = DotDot
         THEN ResolveFrom(links,
                          IF done = << >> THEN << >>
                          ELSE SubSeq(done, 1, Len(done) - 1),
                          Tail(rest), hops)
         ELSE IF c = Dot
         THEN ResolveFrom(links, done, Tail(rest), hops)
         ELSE IF LinkAt(links, Append(done, c)) # {}
         THEN IF hops = 0 THEN [ok |-> FALSE, path |-> << >>]
              ELSE LET l == CHOOSE x \in LinkAt(links, Append(done, c)) : TRUE
                   IN  ResolveFrom(links, IF l.abs THEN << >> ELSE done,
                                   l.to \o Tail(rest), hops - 1)
         ELSE ResolveFrom(links, Append(done, c), Tail(rest), hops)

Resolve(links, path) == ResolveFrom(links, << >>, path, MaxLinkHops)

\* PurePath.suffix of a final component: from its last dot on, unless there
\* is none or the name starts or ends with it.
RECURSIVE LastDot(_, _)
LastDot(name, i) ==
    IF i = 0 THEN 0 ELSE IF name[i] = 46 THEN i ELSE LastDot(name, i - 1)

Suffix(path) ==
    IF path = << >> THEN << >>
    ELSE LET name == path[Len(path)]
             i == LastDot(name, Len(name))
         IN  IF i > 1 /\ i < Len(name) THEN SubSeq(name, i, Len(name)) ELSE << >>

\* str.lower() on the ASCII letters.
Lower(str) ==
    [i \in 1..Len(str) |-> IF str[i] >= 65 /\ str[i] <= 90 THEN str[i] + 32 ELSE str[i]]

\* ---- sanitize_path ----

ReturnsNone == [kind |-> "None", path |-> << >>]
Raises == [kind |-> "raise", path |-> << >>]
ReturnsPath(path) == [kind |-> "path", path |-> path]

\* Lines 96-97: an absolute user_path.
LooksAbsolute_SlashForgotten(path) ==
    StartsWith(path, 92) \/ MatchesDriveLetter(path)

LooksAbsolute(path) ==
    StartsWith(path, 47) \/ StartsWith(path, 92) \/ MatchesDriveLetter(path)

\* Lines 138-143: resolved.relative_to(base_dir.resolve()) does not raise.
IsContained_Unresolved(box, requested, resolved) == IsPrefix(box.base, requested)

IsContained(box, requested, resolved) ==
    /\ Resolve(box.links, box.base).ok
    /\ IsPrefix(Resolve(box.links, box.base).path, resolved)

\* Line 146: resolved.suffix.lower() in ALLOWED_EXTENSIONS.
HasAllowedExtension_OfRequest(requested, resolved) ==
    Lower(Suffix(requested)) \in ALLOWED_EXTENSIONS

HasAllowedExtension(requested, resolved) ==
    Lower(Suffix(resolved)) \in ALLOWED_EXTENSIONS

\* Lines 128-150, for validated parts.
ResolveAndCheck(parts, box) ==
    LET requested == box.base \o parts
        resolved == Resolve(box.links, requested)
    IN  IF ~resolved.ok THEN ReturnsNone
        ELSE IF ~IsContained(box, requested, resolved.path) THEN ReturnsNone
        ELSE IF ~HasAllowedExtension(requested, resolved.path) THEN ReturnsNone
        ELSE ReturnsPath(resolved.path)

sanitize_path(path, box) ==
    IF ~box.absolute THEN Raises
    ELSE IF LooksAbsolute(path) THEN ReturnsNone
    ELSE LET stripped == Strip(Strip(path, Whitespace), {47, 92})
         IN  IF stripped = << >> THEN ReturnsNone
             ELSE IF Contains(stripped, 0) THEN ReturnsNone
             ELSE LET parts == Split(BackslashToSlash(Unquote(stripped)))
                  IN  IF ~ValidParts(parts) THEN ReturnsNone
                      ELSE ResolveAndCheck(parts, box)

\* The calls of Path.resolve that sanitize_path(path, box) makes: none when
\* it raises or returns before line 133, requested_path.resolve() on line
\* 133 and, unless that one raised, base_dir.resolve() on line 140.
ResolveCalls(path, box) ==
    IF ~box.absolute THEN 0
    ELSE IF LooksAbsolute(path) THEN 0
    ELSE LET stripped == Strip(Strip(path, Whitespace), {47, 92})
         IN  IF stripped = << >> THEN 0
             ELSE IF Contains(stripped, 0) THEN 0
             ELSE LET parts == Split(BackslashToSlash(Unquote(stripped)))
                  IN  IF ~ValidParts(parts) THEN 0
                      ELSE IF ~Resolve(box.links, box.base \o parts).ok THEN 1
                      ELSE 2

\* ---- the requests ----

\* The client writes the next segment of the path it will request.
ComposePath(sep, seg) ==
    /\ sanitized = NotCalled
    /\ segments < MaxSegs
    /\ user_path' = IF segments = 0 THEN seg ELSE user_path \o sep \o seg
    /\ segments' = segments + 1
    /\ UNCHANGED <<sandbox, sanitized, fs_calls>>
    /\ UNCHANGED notPath

\* sanitize_path(user_path, base_dir) is called.
SanitizePath ==
    /\ sanitized = NotCalled
    /\ sanitized' = sanitize_path(user_path, sandbox)
    /\ fs_calls' = ResolveCalls(user_path, sandbox)
    /\ UNCHANGED <<user_path, segments, sandbox>>
    /\ UNCHANGED notPath

PathNext ==
    \/ \E sep \in SepTokens, seg \in SegTokens : ComposePath(sep, seg)
    \/ SanitizePath

InitPath ==
    /\ KSInit /\ PubInit /\ DlInit /\ IdInit /\ ServeInit /\ KeysInit /\ AuditInit /\ StopInit /\ ResolveInit /\ CtlInit /\ LookupInit /\ RemoveInit /\ RateInit /\ ForumInit
    /\ user_path = << >>
    /\ segments = 0
    /\ sandbox \in Sandboxes
    /\ sanitized = NotCalled
    /\ fs_calls = 0

SpecPath == InitPath /\ [][PathNext]_vars

\* ---- requests that probe the names rather than the traversal ----

\* Segments: a name without extension, a file with an allowed extension in
\* lower and in upper case, a shell script, a name ending in an encoded
\* newline ('a%0a'), a name after a space, an encoded non-ASCII letter
\* ('%c3%a9'), a drive letter ('C:'), a name holding a NUL, the empty
\* segment and '.'.
NameTokens ==
    {<<97>>, <<97, 46, 106, 115>>, <<97, 46, 74, 83>>, <<97, 46, 115, 104>>, <<97, 37, 48, 97>>, <<32, 97, 46, 106, 115>>, <<37, 99, 51, 37, 97, 57>>, <<67, 58>>,
     <<97, 0>>, << >>, Dot}

NameSeps == {<<47>>, <<92>>}

NameSandboxes == {PlainSandbox, LinkInsideSandbox, ScriptLinkSandbox}

NamesNext ==
    \/ \E sep \in NameSeps, seg \in NameTokens : ComposePath(sep, seg)
    \/ SanitizePath

InitNames ==
    /\ KSInit /\ PubInit /\ DlInit /\ IdInit /\ ServeInit /\ KeysInit /\ AuditInit /\ StopInit /\ ResolveInit /\ CtlInit /\ LookupInit /\ RemoveInit /\ RateInit /\ ForumInit
    /\ user_path = << >>
    /\ segments = 0
    /\ sandbox \in NameSandboxes
    /\ sanitized = NotCalled
    /\ fs_calls = 0

SpecNames == InitNames /\ [][NamesNext]_vars

\* ---- what a path means to the one who requests it ----

\* The segments of a string, split on '/' and '\'.
SegmentsOf(str) == Split(BackslashToSlash(str))

HasDotDotSegment(str) ==
    \E i \in 1..Len(SegmentsOf(str)) : SegmentsOf(str)[i] = DotDot

\* A '..' segment written raw, URL-encoded once or URL-encoded twice.
ContainsTraversal(str) ==
    \/ HasDotDotSegment(str)
    \/ HasDotDotSegment(Unquote(str))
    \/ HasDotDotSegment(Unquote(Unquote(str)))

\* C9: every path sanitize_path returns lies inside the symlink-resolved
\* base_dir, whatever the requested path and the symbolic links.
C9_ResultInsideResolvedBase ==
    sanitized.kind = "path" =>
        IsPrefix(Resolve(sandbox.links, sandbox.base).path, sanitized.path)

\* A path was returned whose resolution followed a symbolic link under
\* base_dir: it is not the requested segments appended to the resolved base.
C9_Witness ==
    /\ sanitized.kind = "path"
    /\ \E l \in sandbox.links :
           /\ IsPrefix(Resolve(sandbox.links, sandbox.base).path, l.at)
           /\ l.at # Resolve(sandbox.links, sandbox.base).path
    /\ sanitized.path # Resolve(sandbox.links, sandbox.base).path \o SegmentsOf(user_path)

\* C10: for an absolute base_dir, sanitize_path returns None for every
\* user_path that contains a '..' segment, written raw, URL-encoded once or
\* URL-encoded twice, between '/', '\' or mixed separators.
C10_TraversalReturnsNone ==
    (sanitized # NotCalled /\ sandbox.absolute /\ ContainsTraversal(user_path))
        => sanitized = ReturnsNone

\* A '..' segment that only shows after decoding twice, between a backslash
\* and a slash, in a path that starts with a name.
C10_Witness ==
    /\ sanitized = ReturnsNone
    /\ sandbox.absolute
    /\ ~LooksAbsolute(user_path)
    /\ StartsWith(user_path, 97)
    /\ \A i \in 1..Len(SegmentsOf(user_path)) : SegmentsOf(user_path)[i] # << >>
    /\ ~HasDotDotSegment(user_path)
    /\ ~HasDotDotSegment(Unquote(user_path))
    /\ HasDotDotSegment(Unquote(Unquote(user_path)))
    /\ Contains(user_path, 92) /\ Contains(user_path, 47)

\* Every segment of a string is non-empty, is neither '.' nor '..', and is
\* made of the characters [A-Za-z0-9_.-] only.
AllSegmentsWhitelisted(str) ==
    \A i \in 1..Len(SegmentsOf(str)) :
        LET seg == SegmentsOf(str)[i]
        IN  /\ seg \notin {<< >>, Dot, DotDot}
            /\ \A j \in 1..Len(seg) : IsSafeChar(seg[j])

\* C11: sanitize_path accepts a user_path only if, after one URL-decoding
\* and splitting on '/' and '\', every segment is non-empty, is neither '.'
\* nor '..' and consists solely of [A-Za-z0-9_.-].
C11_OnlyWhitelistedSegments ==
    sanitized.kind = "path" => AllSegmentsWhitelisted(Unquote(user_path))

\* The file a request leads to: the segments the request names, below the
\* resolved base_dir, with every symbolic link followed.
RequestedFile(str, box) ==
    Resolve(box.links,
            Resolve(box.links, box.base).path
                \o SegmentsOf(Unquote(Strip(Strip(str, Whitespace), {47, 92})))).path

\* C12: every path sanitize_path returns has an extension that, lower-cased,
\* is in ALLOWED_EXTENSIONS, and a request for a file with no extension or
\* with an extension outside the set returns None.
C12_OnlyAllowedExtensions ==
    /\ sanitized.kind = "path" =>
           Lower(Suffix(sanitized.path)) \in ALLOWED_EXTENSIONS
    /\ (/\ sanitized # NotCalled
        /\ Lower(Suffix(RequestedFile(user_path, sandbox))) \notin ALLOWED_EXTENSIONS)
           => sanitized = ReturnsNone

\* A request that passes every check on its segments and stays inside the
\* sandbox, for a shell script, was answered None.
C12_Witness ==
    /\ sanitized = ReturnsNone
    /\ user_path # << >>
    /\ AllSegmentsWhitelisted(user_path)
    /\ IsPrefix(sandbox.base, RequestedFile(user_path, sandbox))
    /\ Suffix(RequestedFile(user_path, sandbox)) = <<46, 115, 104>>

\* C13: for an absolute base_dir, sanitize_path returns None for every
\* user_path that begins with '/', with '\' or with a drive letter followed
\* by ':\', or that holds a NUL anywhere, and it does so without asking the
\* filesystem.
C13_AbsoluteOrNulReturnsNone ==
    (/\ sanitized # NotCalled
     /\ sandbox.absolute
     /\ \/ StartsWith(user_path, 47)
        \/ StartsWith(user_path, 92)
        \/ MatchesDriveLetter(user_path)
        \/ Contains(user_path, 0))
        => (sanitized = ReturnsNone /\ fs_calls = 0)

\* A path that starts with a name and holds a NUL further on was answered
\* None.
C13_Witness ==
    /\ sanitized = ReturnsNone
    /\ fs_calls = 0
    /\ StartsWith(user_path, 97)
    /\ Len(user_path) > 2 /\ user_path[2] # 0
    /\ Contains(user_path, 0)

(***************************************************************************)
(* SecurityManager.validate_site_id                                        *)
(***************************************************************************)

\* How far from 64 the length of a candidate site id goes.
MaxIdSlack == 1

\* len(site_id) != 64, line 157.
SiteIdLength == 64

\* ---- int(string, 16) ----

\* The characters int() skips at both ends, among those below 256.
IntWhitespace == {9, 10, 11, 12, 13, 32, 133, 160}

IsHexDigit(c) == HexVal(c) >= 0

\* After an optional sign: an optional '0x' or '0X', which may be followed
\* by one underscore.
AfterSign(str) ==
    IF str # << >> /\ Head(str) \in {43, 45} THEN Tail(str) ELSE str

AfterPrefix(str) ==
    IF Len(str) >= 2 /\ str[1] = 48 /\ str[2] \in {88, 120}
    THEN IF Len(str) >= 3 /\ str[3] = 95
         THEN SubSeq(str, 4, Len(str))
         ELSE SubSeq(str, 3, Len(str))
    ELSE str

\* Digits with single underscores between them.
IsDigitRun(str) ==
    /\ str # << >>
    /\ \A i \in 1..Len(str) : IsHexDigit(str[i]) \/ str[i] = 95
    /\ str[1] # 95
    /\ str[Len(str)] # 95
    /\ \A i \in 1..(Len(str) - 1) : ~(str[i] = 95 /\ str[i + 1] = 95)

\* int(string, 16) returns a number rather than raising ValueError.
ParsesAsHex(str) == IsDigitRun(AfterPrefix(AfterSign(Strip(str, IntWhitespace))))

\* Lines 155-163.
IntAccepts(str) == ParsesAsHex(str)

validate_site_id(arg) ==
    IF ~arg.is_str THEN FALSE
    ELSE IF Len(arg.chars) # SiteIdLength THEN FALSE
    ELSE IntAccepts(arg.chars)

\* ---- the candidates ----

\* What a candidate starts with, holds in the middle and ends with, around
\* a filling of the digit 'a'.
IdHeads == {<< >>, <<43>>, <<45>>, <<32>>, <<48, 120>>, <<48, 88, 95>>, <<95>>, <<103>>, <<65>>, <<57>>}
IdMiddles == {<< >>, <<95>>, <<95, 95>>, <<32>>, <<120>>, <<45>>}
IdTails == {<< >>, <<32>>, <<95>>, <<10>>, <<70>>, <<103>>, <<0>>}

Filling(n) == [i \in 1..n |-> 97]

Candidate(head, middle, tail, len) ==
    LET n == len - Len(head) - Len(middle) - Len(tail)
    IN  head \o Filling(n \div 2) \o middle \o Filling(n - (n \div 2)) \o tail

SiteIdArgs ==
    {[is_str |-> TRUE, chars |-> Candidate(h, m, t, len)] :
        h \in IdHeads, m \in IdMiddles, t \in IdTails,
        len \in (SiteIdLength - MaxIdSlack)..(SiteIdLength + MaxIdSlack)}
    \cup {NoSiteId}

ValidateSiteId ==
    /\ id_result = "not called"
    /\ id_result' = IF validate_site_id(site_id_arg) THEN "True" ELSE "False"
    /\ UNCHANGED site_id_arg
    /\ UNCHANGED notId

IdNext == ValidateSiteId

InitId ==
    /\ KSInit /\ PubInit /\ DlInit /\ PathInit /\ ServeInit /\ KeysInit /\ AuditInit /\ StopInit /\ ResolveInit /\ CtlInit /\ LookupInit /\ RemoveInit /\ RateInit /\ ForumInit
    /\ site_id_arg \in SiteIdArgs
    /\ id_result = "not called"

SpecId == InitId /\ [][IdNext]_vars

\* C15: validate_site_id(s) returns True exactly when s is a string of
\* exactly 64 characters, each a hexadecimal digit (0-9, a-f, A-F), and
\* returns False for everything else.
C15_TrueExactlyFor64HexDigits ==
    /\ id_result \in {"not called", "True", "False"}
    /\ id_result = "True" =>
           /\ site_id_arg.is_str
           /\ Len(site_id_arg.chars) = 64
           /\ \A i \in 1..Len(site_id_arg.chars) : IsHexDigit(site_id_arg.chars[i])
    /\ id_result = "False" =>
           \/ ~site_id_arg.is_str
           \/ Len(site_id_arg.chars) # 64
           \/ \E i \in 1..Len(site_id_arg.chars) : ~IsHexDigit(site_id_arg.chars[i])

(***************************************************************************)
(* serve_site  (server/local_server.py, lines 254-322)                     *)
(*                                                                         *)
(* The body of the route handler, for a request the rate limiter let       *)
(* through.  filepath is user_path, site_dir is the base of sandbox.       *)
(***************************************************************************)

\* The site ids requested: 64 hex digits, 63 of them, a 'g' among them, and
\* a '+' followed by 63 digits.
ServeSiteIds ==
    {Candidate(<< >>, << >>, << >>, SiteIdLength),
     Candidate(<< >>, << >>, << >>, SiteIdLength - 1),
     Candidate(<<103>>, << >>, << >>, SiteIdLength),
     Candidate(<<43>>, << >>, << >>, SiteIdLength)}

\* The segments and the separator of the requested file paths.
ServeTokens == {<<97>>, <<97, 46, 106, 115>>, <<97, 46, 115, 104>>, <<46, 46>>}
ServeSeps == {<<47>>}

ServeSandboxes == {PlainSandbox, LinkInsideSandbox, ScriptLinkSandbox}

\* What the filesystem may have at a path: nothing, a regular file, a
\* directory.
FileKinds == {"missing", "file", "dir"}

Answer(status) == [status |-> status, file_bytes |-> FALSE]
SendsFile == [status |-> 200, file_bytes |-> TRUE]

\* audit_logger.log_security_violation and audit_logger.log_file_access.
Violation(type) == [event |-> "SECURITY_VIOLATION", detail |-> type]
FileAccess(success) ==
    [event |-> "FILE_ACCESS", detail |-> IF success THEN "success" ELSE "failure"]

\* 'if audit_logger: audit_logger.log_...(...)'.
Logged(event) == IF logger_present THEN <<event>> ELSE << >>

\* Lines 301 and 306: safe_path.exists() and safe_path.is_file().
Exists(kind) == kind # "missing"

IsFile_AnythingThere(kind) == kind # "missing"

IsFile(kind) == kind = "file"

\* Lines 282-322, once the site id is valid: the answer, the audit events
\* and whether sanitize_path was called.
ServeValid(kind, send_ok) ==
    IF ~site_dir_exists
    THEN /\ response' = Answer(404)
         /\ serve_audit' = Logged(FileAccess(FALSE))
         /\ UNCHANGED <<sanitized, fs_calls, served_kind>>
    ELSE /\ sanitized' = sanitize_path(user_path, sandbox)
         /\ fs_calls' = ResolveCalls(user_path, sandbox)
         /\ IF sanitize_path(user_path, sandbox).kind # "path"
            THEN /\ response' = Answer(403)
                 /\ serve_audit' = Logged(Violation("PATH_TRAVERSAL_ATTEMPT"))
                 /\ UNCHANGED served_kind
            ELSE /\ served_kind' = kind
                 /\ IF ~Exists(kind)
                    THEN /\ response' = Answer(404)
                         /\ serve_audit' = Logged(FileAccess(FALSE))
                    ELSE IF ~IsFile(kind)
                    THEN /\ response' = Answer(403)
                         /\ serve_audit' = Logged(Violation("DIRECTORY_ACCESS_ATTEMPT"))
                    ELSE /\ response' = IF send_ok THEN SendsFile ELSE Answer(500)
                         /\ serve_audit' = Logged(FileAccess(TRUE))

\* serve_site(site_id, filepath).  kind is what the filesystem has at the
\* sanitized path, send_ok whether send_file returns rather than raises.
ServeSite(kind, send_ok) ==
    /\ response = NotServed
    /\ segments >= 1
    /\ IF ~validate_site_id([is_str |-> TRUE, chars |-> req_site_id])
       THEN /\ response' = Answer(400)
            /\ serve_audit' = Logged(Violation("INVALID_SITE_ID"))
            /\ UNCHANGED <<sanitized, fs_calls, served_kind>>
       ELSE ServeValid(kind, send_ok)
    /\ UNCHANGED <<user_path, segments, sandbox>>
    /\ UNCHANGED <<req_site_id, site_dir_exists, logger_present>>
    /\ UNCHANGED notServe

\* The client writes the next segment of the file path of its request.
ComposeRequest(sep, seg) ==
    /\ response = NotServed
    /\ ComposePath(sep, seg)

ServeNext ==
    \/ \E sep \in ServeSeps, seg \in ServeTokens : ComposeRequest(sep, seg)
    \/ \E kind \in FileKinds, send_ok \in BOOLEAN : ServeSite(kind, send_ok)

InitServe ==
    /\ KSInit /\ PubInit /\ DlInit /\ IdInit /\ KeysInit /\ AuditInit /\ StopInit /\ ResolveInit /\ CtlInit /\ LookupInit /\ RemoveInit /\ RateInit /\ ForumInit
    /\ user_path = << >>
    /\ segments = 0
    /\ sanitized = NotCalled
    /\ fs_calls = 0
    /\ sandbox \in ServeSandboxes
    /\ req_site_id \in ServeSiteIds
    /\ site_dir_exists \in BOOLEAN
    /\ logger_present \in BOOLEAN
    /\ served_kind = "unknown"
    /\ response = NotServed
    /\ serve_audit = << >>

SpecServe == InitServe /\ [][ServeNext]_vars

\* C14: serve_site sends file bytes only when the site_id passes
\* validate_site_id, the site directory exists, sanitize_path returned a
\* path and that path is an existing regular file; otherwise it sends none
\* and answers 400 for an invalid site_id, 404 for a site that is not
\* downloaded, 403 for a path sanitize_path rejected and 404 for a missing
\* file.
C14_FileBytesOnlyForValidRequests ==
    LET valid == validate_site_id([is_str |-> TRUE, chars |-> req_site_id])
    IN  response # NotServed =>
          /\ response.file_bytes =>
                /\ valid /\ site_dir_exists
                /\ sanitized.kind = "path" /\ served_kind = "file"
                /\ response.status = 200
          /\ ~valid => response = Answer(400)
          /\ (valid /\ ~site_dir_exists) => response = Answer(404)
          /\ (valid /\ site_dir_exists /\ sanitized.kind = "None")
                => response = Answer(403)
          /\ (valid /\ site_dir_exists /\ sanitized.kind = "path"
                /\ served_kind = "missing") => response = Answer(404)

\* A file was sent, reached through a symbolic link inside the site.
C14_Witness ==
    /\ response = SendsFile
    /\ sandbox = LinkInsideSandbox
    /\ sanitized.path # sandbox.base \o SegmentsOf(user_path)

\* C27: every request answered by serve_site that is a security violation
\* -- an invalid site_id, or a file path sanitize_path rejects -- has left a
\* SECURITY_VIOLATION event on the audit log, whether or not the site's
\* directory exists.
C27_ViolationsLoggedAsViolations ==
    (response # NotServed /\ logger_present) =>
        ((\/ ~validate_site_id([is_str |-> TRUE, chars |-> req_site_id])
          \/ sanitize_path(user_path, sandbox).kind # "path") =>
            \E n \in 1..Len(serve_audit) : serve_audit[n].event = "SECURITY_VIOLATION")

(***************************************************************************)
(* SiteStorage.save_private_key / load_private_key  (core/storage.py) and  *)
(* SecurityManager.encrypt_private_key / decrypt_private_key               *)
(***************************************************************************)

\* How many save, create and load calls are made.
MaxKeyOps == 3

PrivateKeys == {"k1", "k2"}

\* The password arguments: None, the empty string and two passphrases.
Passwords == {None, "", "p1", "p2"}

\* The key pair create_site generates for a new site.
PrivateKeyOf(site) == IF site = "s1" THEN "k1" ELSE "k2"

\* The raw bytes of a private key.
RawKey(key) == [kind |-> "raw", key |-> key, under |-> None]

\* encrypt_private_key(private_key, password): salt + nonce + tag +
\* ciphertext, AES-256-GCM under the key PBKDF2 derives from the password.
encrypt_private_key(key, password) ==
    [kind |-> "envelope", key |-> key, under |-> password]

\* decrypt_private_key(encrypted_key, password): the plaintext when the tag
\* verifies under the key derived from the password, an exception
\* otherwise; bytes that are no envelope do not verify.
decrypt_private_key(bytes, password) ==
    IF bytes.kind = "envelope" /\ bytes.under = password
    THEN [raised |-> FALSE, data |-> RawKey(bytes.key)]
    ELSE [raised |-> TRUE, data |-> NoBytes]

\* 'if password:' for an Optional[str].
PasswordGiven_NotNone(password) == password # None

PasswordGiven(password) == password \notin {None, ""}

\* save_private_key, lines 40-50: key_file.write_bytes(...).  A new file
\* gets the mode the umask leaves, an existing one keeps its mode.
SaveWrite(site, key, password, caller) ==
    /\ saving = None
    /\ key_ops < MaxKeyOps
    /\ key_store' = DictSet(key_store, site,
          [content |-> IF PasswordGiven(password)
                       THEN encrypt_private_key(key, password)
                       ELSE RawKey(key),
           mode |-> IF site \in DOMAIN key_store
                    THEN key_store[site].mode ELSE "umask"])
    /\ saving' = site
    /\ saved' = DictSet(saved, site,
          [key |-> key, password |-> password, by |-> caller])
    /\ key_ops' = key_ops + 1
    /\ UNCHANGED last_load
    /\ UNCHANGED notKeys

\* SiteStorage.save_private_key(site_id, private_key, password), up to the
\* write.
SavePrivateKey(site, key, password) ==
    SaveWrite(site, key, password, "save_private_key")

\* SitePublisher.create_site, lines 54-61: a fresh key pair, hence a new
\* site_id, saved with the password create_site was given.
CreateSiteKey(site, password) ==
    /\ site \notin DOMAIN key_store
    /\ SaveWrite(site, PrivateKeyOf(site), password, "create_site")

\* save_private_key, lines 52-55: key_file.chmod(0o600) and return.
SaveChmod ==
    /\ saving # None
    /\ key_store' = DictSet(key_store, saving,
          [key_store[saving] EXCEPT !.mode = "0600"])
    /\ saving' = None
    /\ UNCHANGED <<saved, last_load, key_ops>>
    /\ UNCHANGED notKeys

\* SiteStorage.load_private_key(key_file, password).
LoadOutcome(site, password) ==
    IF site \notin DOMAIN key_store
    THEN [outcome |-> "FileNotFoundError", data |-> NoBytes]
    ELSE IF PasswordGiven(password)
    THEN IF decrypt_private_key(key_store[site].content, password).raised
         THEN [outcome |-> "ValueError", data |-> NoBytes]
         ELSE [outcome |-> "returned",
               data |-> decrypt_private_key(key_store[site].content, password).data]
    ELSE [outcome |-> "returned", data |-> key_store[site].content]

LoadPrivateKey(site, password) ==
    /\ key_ops < MaxKeyOps
    /\ last_load' =
          [site |-> site, password |-> password,
           outcome |-> LoadOutcome(site, password).outcome,
           file |-> IF site \in DOMAIN key_store
                    THEN key_store[site].content ELSE NoBytes,
           data |-> LoadOutcome(site, password).data]
    /\ key_ops' = key_ops + 1
    /\ UNCHANGED <<key_store, saving, saved>>
    /\ UNCHANGED notKeys

KeysNext ==
    \/ \E site \in Sites, key \in PrivateKeys, password \in Passwords :
          SavePrivateKey(site, key, password)
    \/ \E site \in Sites, password \in Passwords : CreateSiteKey(site, password)
    \/ SaveChmod
    \/ \E site \in Sites, password \in Passwords : LoadPrivateKey(site, password)

InitKeys == KSInit /\ PubInit /\ DlInit /\ PathInit /\ IdInit /\ ServeInit /\ KeysInit /\ AuditInit /\ StopInit /\ ResolveInit /\ CtlInit /\ LookupInit /\ RemoveInit /\ RateInit /\ ForumInit

SpecKeys == InitKeys /\ [][KeysNext]_vars

\* C16: loading a key that was saved sealed under passphrase p returns
\* exactly that key when p is given, and fails with the one generic error
\* (ValueError) for any other passphrase value: another string, the empty
\* string, or None.
C16_SealRoundTripAndUniformFailure ==
    (last_load.outcome # "not called" /\ last_load.file.kind = "envelope") =>
        IF last_load.password = last_load.file.under
        THEN /\ last_load.outcome = "returned"
             /\ last_load.data = RawKey(last_load.file.key)
        ELSE last_load.outcome = "ValueError"

\* No save_private_key call is between its write and its chmod.
NoSaveInProgress == saving = None

\* C17 as stated: every key file written by save_private_key holds the
\* password-encrypted envelope and has owner-only permissions.
C17_EveryKeyFileSealed ==
    NoSaveInProgress =>
        \A site \in DOMAIN key_store :
            /\ key_store[site].content.kind = "envelope"
            /\ key_store[site].mode = "0600"

\* C17 amended: every key file written by a completed save_private_key has
\* owner-only permissions; it holds the envelope of the key under the
\* password when a non-empty password was given, and the raw key bytes when
\* the password was None or empty.
C17_SealedIffPasswordGiven ==
    NoSaveInProgress =>
        \A site \in DOMAIN key_store :
            /\ key_store[site].mode = "0600"
            /\ key_store[site].content =
                  IF saved[site].password \in {"p1", "p2"}
                  THEN [kind |-> "envelope", key |-> saved[site].key,
                        under |-> saved[site].password]
                  ELSE [kind |-> "raw", key |-> saved[site].key, under |-> None]

\* Two create_site calls have completed, one with a passphrase and one with
\* the empty password.
C17_Witness ==
    /\ NoSaveInProgress
    /\ DOMAIN key_store = Sites
    /\ \A site \in Sites : saved[site].by = "create_site"
    /\ saved["s1"].password = "p1" /\ key_store["s1"].content.kind = "envelope"
    /\ saved["s2"].password = "" /\ key_store["s2"].content.kind = "raw"

(***************************************************************************)
(* AuditLogger.log_event  (core/audit_log.py, lines 38-56)                 *)
(***************************************************************************)

\* How many events are logged after AUDIT_START.
MaxEvents == 3

AuditEventTypes == {"FILE_ACCESS", "SECURITY_VIOLATION"}
AuditData == {"d1", "d2"}

\* log_event(event_type, data): the event with the current time, its hash
\* computed over json.dumps(event, sort_keys=True) of the event alone (lines
\* 53-54), appended to the log file.  tick is how far the clock has moved
\* since the last reading.
\* self.logger.info(line), line 56: every handler of the logger writes the
\* record to its file; all of them were opened on the same audit file.
Emitted(line, count) == [h \in 1..count |-> line]

LogEvent(event_type, data, tick) ==
    /\ tamper = "none"
    /\ Len(log_file) <= MaxEvents
    /\ audit_clock' = audit_clock + tick
    /\ log_file' = log_file \o
          Emitted(AuditLine(AuditContent(audit_clock + tick, event_type, data)),
                  handlers)
    /\ written' = log_file'
    /\ UNCHANGED <<tamper, handlers>>
    /\ UNCHANGED notAudit

\* Someone with access to the file changes the data of a past event.
EditPayload(i, data) ==
    /\ tamper = "none"
    /\ i < Len(log_file)
    /\ log_file[i].content.data # data
    /\ log_file' = [log_file EXCEPT ![i].content.data = data]
    /\ tamper' = "edit"
    /\ UNCHANGED <<audit_clock, written, handlers>>
    /\ UNCHANGED notAudit

\* ... swaps two lines.
SwapEvents(i, j) ==
    /\ tamper = "none"
    /\ i < j
    /\ log_file[i] # log_file[j]
    /\ log_file' = [log_file EXCEPT ![i] = log_file[j], ![j] = log_file[i]]
    /\ tamper' = "swap"
    /\ UNCHANGED <<audit_clock, written, handlers>>
    /\ UNCHANGED notAudit

\* ... removes a line.
RemoveEvent(i) ==
    /\ tamper = "none"
    /\ Len(log_file) >= 2
    /\ log_file' = SubSeq(log_file, 1, i - 1) \o SubSeq(log_file, i + 1, Len(log_file))
    /\ tamper' = "remove"
    /\ UNCHANGED <<audit_clock, written, handlers>>
    /\ UNCHANGED notAudit

AuditNext ==
    \/ \E event_type \in AuditEventTypes, data \in AuditData, tick \in {0, 1} :
          LogEvent(event_type, data, tick)
    \/ \E i \in 1..Len(log_file), data \in AuditData : EditPayload(i, data)
    \/ \E i, j \in 1..Len(log_file) : SwapEvents(i, j)
    \/ \E i \in 1..Len(log_file) : RemoveEvent(i)

InitAudit ==
    KSInit /\ PubInit /\ DlInit /\ PathInit /\ IdInit /\ ServeInit /\ KeysInit /\ AuditInit /\ StopInit /\ ResolveInit /\ CtlInit /\ LookupInit /\ RemoveInit /\ RateInit /\ ForumInit

SpecAudit == InitAudit /\ [][AuditNext]_vars

\* C18: the hash stored with the n+1-th event is computed over the hash of
\* the n-th event together with the content of the n+1-th.
C18_HashCoversPreviousHash ==
    \A n \in 1..(Len(written) - 1) :
        written[n + 1].hash = written[n].hash \o <<written[n + 1].content>>

\* Recomputing the hashes of a log: the hash of every line is the one
\* log_event computes for the line's content.
RecomputedHashesMatch(lines) ==
    \A n \in 1..Len(lines) : lines[n].hash = HashOf(lines[n].content)

\* C19: recomputing the hashes succeeds on an untouched log and fails after
\* any single change to its history: an edited payload, two events swapped,
\* an event removed.
C19_RecomputationDetectsAnyChange ==
    /\ tamper = "none" => RecomputedHashesMatch(log_file)
    /\ tamper # "none" => ~RecomputedHashesMatch(log_file)

\* How many AuditLogger instances the process creates.
MaxInstances == 2

\* AuditLogger(log_dir) once more in the same process, on the same day:
\* logging.getLogger('zednet.audit') is the logger the earlier instances
\* use (line 26); one more FileHandler on the same file is added to it (lines
\* 29-34) and AUDIT_START is logged (line 36).
NewAuditLogger(tick) ==
    /\ tamper = "none"
    /\ handlers < MaxInstances
    /\ Len(log_file) <= MaxEvents
    /\ handlers' = handlers + 1
    /\ audit_clock' = audit_clock + tick
    /\ log_file' = log_file \o
          Emitted(AuditLine(AuditContent(audit_clock + tick, "AUDIT_START",
                                         "version 1.0")),
                  handlers + 1)
    /\ written' = log_file'
    /\ UNCHANGED tamper
    /\ UNCHANGED notAudit

LoggersNext ==
    \/ \E tick \in {0, 1} : NewAuditLogger(tick)
    \/ \E event_type \in AuditEventTypes, data \in AuditData, tick \in {0, 1} :
          LogEvent(event_type, data, tick)

InitLoggers ==
    KSInit /\ PubInit /\ DlInit /\ PathInit /\ IdInit /\ ServeInit /\ KeysInit /\ AuditInit /\ StopInit /\ ResolveInit /\ CtlInit /\ LookupInit /\ RemoveInit /\ RateInit /\ ForumInit

SpecLoggers == InitLoggers /\ [][LoggersNext]_vars

\* C29: every log_event call appends exactly one line to the audit log and
\* leaves the earlier lines as they were, however many AuditLogger
\* instances exist.
C29_OneLinePerEvent ==
    [][log_file' # log_file =>
          /\ Len(log_file') = Len(log_file) + 1
          /\ SubSeq(log_file', 1, Len(log_file)) = log_file]_vars

\* The calendar day of a reading of the clock; the name of the log file,
\* audit_<day>.log, is formed from it once, in __init__ (line 23).
TicksPerDay == 2
DayOf(timestamp) == timestamp \div TicksPerDay

\* The day whose segment the one FileHandler of the logger writes to.
SegmentDay == DayOf(written[1].content.timestamp)

\* C28: the segment of a day holds the events of that day only: an event
\* logged after the calendar day changed is not appended to the earlier
\* day's file (it opens a new segment, whose first event records the final
\* hash of the previous one).
C28_DayChangeStartsNewSegment ==
    \A n \in 1..Len(written) : DayOf(written[n].content.timestamp) = SegmentDay

\* The audit events a step appended.
NewAuditEvents == SubSeq(audit_events', Len(audit_events) + 1, Len(audit_events'))

\* The probe outcome of the tick a step made.
TickOutcome == probe_trace'[Len(probe_trace')]

JoinTimeout == 5

\* requests.get(service, timeout=5), in seconds.
RequestTimeout == 5

\* How many IP_CHECK_SERVICES get_public_ip asks in turn.
Services == 2

\* KillSwitch(check_interval=30), in seconds.
CheckInterval == 30

\* KillSwitch.start, called once: registers the callback, sets is_running
\* and starts the thread at the head of _monitor_loop.
MonitorStart ==
    /\ monitor_pc = "none"
    /\ stop_pc = "idle"
    /\ on_emergency_shutdown' = TRUE
    /\ is_running' = TRUE
    /\ monitor_pc' = "loop"
    /\ UNCHANGED <<is_safe, last_known_ip, shutdown_triggered, audit_events,
                   callback_calls, probe_trace>>
    /\ UNCHANGED <<service, req_left, sleep_left, stop_pc, join_left, at_return>>
    /\ UNCHANGED notStop

\* The test of `while self.is_running`: into _check_vpn_status, whose first
\* step is the request to the first service, or out of the loop.
LoopTest ==
    /\ monitor_pc = "loop"
    /\ IF is_running
       THEN /\ Len(probe_trace) < MaxTicks
            /\ monitor_pc' = "probing"
            /\ service' = 1
            /\ req_left' = RequestTimeout
       ELSE /\ monitor_pc' = "exited"
            /\ UNCHANGED <<service, req_left>>
    /\ UNCHANGED <<sleep_left, stop_pc, join_left, at_return>>
    /\ UNCHANGED ksVars
    /\ UNCHANGED notStop

\* The rest of _check_vpn_status once get_public_ip has returned, and the
\* start of time.sleep(check_interval).
ProbeReturns(public_ip) ==
    /\ CheckVpnStatus([raised |-> FALSE, status |-> check_vpn_status(public_ip)])
    /\ monitor_pc' = "sleeping"
    /\ sleep_left' = CheckInterval
    /\ service' = 0
    /\ req_left' = 0
    /\ UNCHANGED <<stop_pc, join_left, at_return>>
    /\ UNCHANGED notStop

\* The service asked answers with an address.
RequestAnswers(ip) ==
    /\ monitor_pc = "probing"
    /\ ProbeReturns(ip)

\* The request fails or times out: the next service is asked, and after the
\* last one get_public_ip returns None.
RequestFails ==
    /\ monitor_pc = "probing"
    /\ IF service < Services
       THEN /\ service' = service + 1
            /\ req_left' = RequestTimeout
            /\ UNCHANGED <<monitor_pc, sleep_left, stop_pc, join_left, at_return>>
            /\ UNCHANGED ksVars
            /\ UNCHANGED notStop
       ELSE ProbeReturns(None)

\* time.sleep returns: back to the test of the loop.
SleepDone ==
    /\ monitor_pc = "sleeping"
    /\ sleep_left = 0
    /\ monitor_pc' = "loop"
    /\ UNCHANGED <<service, req_left, sleep_left, stop_pc, join_left, at_return>>
    /\ UNCHANGED ksVars
    /\ UNCHANGED notStop

\* What stop() leaves behind when it returns.
StopReturned == [calls |-> callback_calls, ticks |-> Len(probe_trace)]

\* KillSwitch.stop up to the join: clears is_running; without a thread it
\* returns at once.
StopCall ==
    /\ stop_pc = "idle"
    /\ is_running' = FALSE
    /\ IF monitor_pc = "none"
       THEN /\ stop_pc' = "returned"
            /\ at_return' = StopReturned
            /\ UNCHANGED join_left
       ELSE /\ stop_pc' = "joining"
            /\ join_left' = JoinTimeout
            /\ UNCHANGED at_return
    /\ UNCHANGED <<is_safe, last_known_ip, on_emergency_shutdown,
                   shutdown_triggered, audit_events, callback_calls, probe_trace>>
    /\ UNCHANGED <<monitor_pc, service, req_left, sleep_left>>
    /\ UNCHANGED notStop

\* join(timeout=5) returns, because the thread ended or the timeout passed,
\* and stop() returns.
JoinReturns ==
    /\ stop_pc = "joining"
    /\ monitor_pc = "exited" \/ join_left = 0
    /\ stop_pc' = "returned"
    /\ at_return' = StopReturned
    /\ UNCHANGED <<monitor_pc, service, req_left, sleep_left, join_left>>
    /\ UNCHANGED ksVars
    /\ UNCHANGED notStop

\* One second passes for every wait in progress; none of them is overdue,
\* and the thread is not about to take the loop's test.
SecondPasses ==
    /\ monitor_pc \in {"probing", "sleeping"} \/ stop_pc = "joining"
    /\ ~ENABLED LoopTest
    /\ monitor_pc = "probing" => req_left > 0
    /\ monitor_pc = "sleeping" => sleep_left > 0
    /\ stop_pc = "joining" => join_left > 0 /\ monitor_pc # "exited"
    /\ req_left' = IF monitor_pc = "probing" THEN req_left - 1 ELSE req_left
    /\ sleep_left' = IF monitor_pc = "sleeping" THEN sleep_left - 1 ELSE sleep_left
    /\ join_left' = IF stop_pc = "joining" THEN join_left - 1 ELSE join_left
    /\ UNCHANGED <<monitor_pc, service, stop_pc, at_return>>
    /\ UNCHANGED ksVars
    /\ UNCHANGED notStop

StopNext ==
    \/ MonitorStart
    \/ LoopTest
    \/ \E ip \in PrivateIPs \cup PublicIPs : RequestAnswers(ip)
    \/ RequestFails
    \/ SleepDone
    \/ StopCall
    \/ JoinReturns
    \/ SecondPasses

InitStop == KSInit /\ PubInit /\ DlInit /\ PathInit /\ IdInit /\ ServeInit /\ KeysInit /\ AuditInit /\ StopInit /\ ResolveInit /\ CtlInit /\ LookupInit /\ RemoveInit /\ RateInit /\ ForumInit

SpecStop == InitStop /\ [][StopNext]_vars

\* C21: once stop() has returned, the monitor thread is not inside a probe,
\* no probe tick has completed since, and the emergency callback has not
\* been invoked since -- also when stop() was called during a probe.
C21_StopTerminatesProbe ==
    stop_pc = "returned" =>
        /\ monitor_pc # "probing"
        /\ Len(probe_trace) = at_return.ticks
        /\ callback_calls = at_return.calls

(***************************************************************************)
(* SiteDownloader._lookup_site_in_dht on the stored record of a site       *)
(***************************************************************************)

\* The public keys there are: those of the two sites and a third party's.
PublicKeys == {PublicKeyOf(site) : site \in Sites} \cup {"pk_other"}

\* What the 'public_key' field of a stored record can hold: the hex of a
\* key, or text that is not hex.
KeyFields == PublicKeys \cup {"not hex"}

\* SecurityManager.derive_site_id: the SHA-256 of the key, in hex; each key
\* has its own, and "s_other" is not the id of either site.
derive_site_id(public_key) ==
    IF \E site \in Sites : PublicKeyOf(site) = public_key
    THEN CHOOSE site \in Sites : PublicKeyOf(site) = public_key
    ELSE "s_other"

\* The bundle the holder of a key publishes, and the item that points to
\* it in the overlay.
BundleUnder(public_key) ==
    IF public_key = "pk_other" THEN "h_other"
    ELSE IF public_key = PublicKeyOf("s1") THEN "h1" ELSE "h2"

ItemUnder(public_key) ==
    [k |-> public_key, ih |-> BundleUnder(public_key), seq |-> ItemSeq,
     sig |-> [by |-> public_key, over |-> BundleUnder(public_key)]]

\* metadata/<site_id>.json of a site made elsewhere: the file is handed to
\* this node, with whatever key field its author wrote.
ReceiveRecord(site, field) ==
    /\ site \notin DOMAIN metadata
    /\ metadata' = DictSet(metadata, site,
                       [NoRecord EXCEPT !.version = InitialVersion,
                                        !.public_key = field])
    /\ UNCHANGED <<key_files, dht_puts, active_sites, pub, pub_history>>
    /\ UNCHANGED last_resolve
    /\ UNCHANGED notResolve

\* storage.delete_site: the record is removed.
DeleteRecord(site) ==
    /\ site \in DOMAIN metadata
    /\ metadata' = DictDel(metadata, site)
    /\ UNCHANGED <<key_files, dht_puts, active_sites, pub, pub_history>>
    /\ UNCHANGED last_resolve
    /\ UNCHANGED notResolve

\* The key lines 85-103 hand to dht_get_item: the stored field, decoded from
\* hex, whatever site_id it was stored under.
KeyAsked(site) ==
    IF metadata[site].public_key \in PublicKeys
    THEN metadata[site].public_key
    ELSE None

\* _lookup_site_in_dht(site_id): None without a record (line 81) or when
\* the field is not hex (fromhex raises, line 129); else the overlay is
\* asked for the stored key, and the info hash of what arrives within the
\* timeout, if anything does, is returned.
ResolveStored(site, answers) ==
    /\ last_resolve' =
          IF site \notin DOMAIN metadata
          THEN [site |-> site, key |-> None, result |-> None]
          ELSE IF KeyAsked(site) = None
          THEN [site |-> site, key |-> None, result |-> None]
          ELSE LET resp == IF answers
                           THEN [received |-> TRUE, idx |-> 0,
                                 item |-> ItemUnder(KeyAsked(site))]
                           ELSE NoResponse
               IN  [site |-> site, key |-> KeyAsked(site),
                    result |-> LookupSiteInDht(site, resp)]
    /\ UNCHANGED pubVars
    /\ UNCHANGED notResolve

ResolveNext ==
    \/ \E site \in Sites : CreateSite(site)
    \/ \E site \in Sites, field \in KeyFields : ReceiveRecord(site, field)
    \/ \E site \in Sites : DeleteRecord(site)
    \/ \E site \in Sites, answers \in BOOLEAN : ResolveStored(site, answers)

InitResolve == KSInit /\ PubInit /\ DlInit /\ PathInit /\ IdInit /\ ServeInit /\ KeysInit /\ AuditInit /\ StopInit /\ ResolveInit /\ CtlInit /\ LookupInit /\ RemoveInit /\ RateInit /\ ForumInit

SpecResolve == InitResolve /\ [][ResolveNext]_vars

\* C23: the resolver asks the overlay for a public key on behalf of a
\* site_id, and returns a bundle address for it, only if derive_site_id of
\* that key equals the site_id; otherwise it resolves nothing.
C23_KeyRederivedBeforeUse ==
    /\ last_resolve.key # None => derive_site_id(last_resolve.key) = last_resolve.site
    /\ last_resolve.result # None => derive_site_id(last_resolve.key) = last_resolve.site

(***************************************************************************)
(* AppController                                                           *)
(***************************************************************************)

\* Where initialize() can leave its try block: nowhere, or at the exception
\* raised by one of the constructors or by asyncio.create_task.
InitOutcomes == {"ok", "publisher", "downloader", "forum", "task"}

\* The statements of the try block an exception at `outcome` comes after.
Reached(outcome, step) ==
    LET order == <<"publisher", "downloader", "forum", "task", "ok">>
        pos(x) == CHOOSE i \in 1..Len(order) : order[i] = x
    IN  pos(step) < pos(outcome)

\* AppController.initialize, called once at startup: the assignments of
\* lines 44-47 up to the statement that raises, then True or, from the
\* except branch, False.
Initialize(outcome) ==
    /\ init_result = "not called"
    /\ ctl_publisher' = Reached(outcome, "publisher")
    /\ ctl_downloader' = Reached(outcome, "downloader")
    /\ ctl_forum' = Reached(outcome, "forum")
    /\ ctl_online' = Reached(outcome, "task")
    /\ init_result' = IF outcome = "ok" THEN "True" ELSE "False"
    /\ UNCHANGED <<delete_tick, last_delete>>
    /\ UNCHANGED pubVars
    /\ UNCHANGED notCtl

\* AppController.is_p2p_online.
is_p2p_online == ctl_online

\* The operations below are those of a controller whose initialize()
\* returned True: main() exits when it returns False.

\* create_site on the controller's publisher.
CtlCreateSite(site) ==
    /\ init_result = "True"
    /\ ctl_publisher
    /\ CreateSite(site)

\* publish_site on the controller's publisher, up to the loading of the key.
CtlPublish(site, content, password_ok) ==
    /\ init_result = "True"
    /\ ctl_publisher
    /\ PubCall("t1", site, content, password_ok)

\* AppController.stop_seeding_site for a seeded site.
StopSeedingSite(site) ==
    /\ init_result = "True"
    /\ ctl_publisher
    /\ site \in DOMAIN active_sites
    /\ active_sites' = DictDel(active_sites, site)
    /\ UNCHANGED <<metadata, key_files, dht_puts, pub, pub_history>>
    /\ UNCHANGED ctlVars
    /\ UNCHANGED notCtl

\* What can go wrong inside storage.delete_site: nothing, unlink of the
\* metadata file raising, or secure_delete of the key file failing.
DeleteFailures == {"none", "metadata", "key"}

\* The metadata store after delete_my_site(site, ...).
MetadataAfterDelete_Kept(site, failure) == metadata

MetadataAfterDelete(site, failure) ==
    IF site \in DOMAIN metadata /\ failure # "metadata"
    THEN DictDel(metadata, site)
    ELSE metadata

\* The key files after delete_my_site(site, delete_key): the key goes only
\* when delete_key is set, the metadata step did not raise, and
\* secure_delete did not fail (it logs its own exceptions, line 190).
KeysAfterDelete(site, delete_key, failure) ==
    IF delete_key /\ ~(site \in DOMAIN metadata /\ failure = "metadata")
       /\ failure # "key"
    THEN key_files \ {site}
    ELSE key_files

\* AppController.delete_my_site: stop seeding, then storage.delete_site;
\* False when delete_site raised.
DeleteMySite(site, delete_key, failure) ==
    /\ init_result = "True"
    /\ delete_tick' = ~delete_tick
    /\ active_sites' = IF ctl_publisher /\ site \in DOMAIN active_sites
                       THEN DictDel(active_sites, site)
                       ELSE active_sites
    /\ metadata' = MetadataAfterDelete(site, failure)
    /\ key_files' = KeysAfterDelete(site, delete_key, failure)
    /\ last_delete' =
          [site |-> site, delete_key |-> delete_key,
           result |-> IF site \in DOMAIN metadata /\ failure = "metadata"
                      THEN "False" ELSE "True"]
    /\ UNCHANGED <<dht_puts, pub, pub_history>>
    /\ UNCHANGED <<ctl_publisher, ctl_downloader, ctl_forum, ctl_online, init_result>>
    /\ UNCHANGED notCtl

\* The controller with one publishing thread, whose key loads and whose
\* put succeeds.
CtlNext ==
    \/ \E outcome \in InitOutcomes : Initialize(outcome)
    \/ \E site \in Sites : CtlCreateSite(site)
    \/ \E site \in Sites : CtlPublish(site, "c1", TRUE)
    \/ PubPut("t1", TRUE)
    \/ PubSeed("t1")
    \/ PubLoad("t1")
    \/ PubSave("t1")
    \/ \E site \in Sites : StopSeedingSite(site)
    \/ \E site \in Sites, delete_key \in BOOLEAN, failure \in DeleteFailures :
          DeleteMySite(site, delete_key, failure)

InitCtl == KSInit /\ PubInit /\ DlInit /\ PathInit /\ IdInit /\ ServeInit /\ KeysInit /\ AuditInit /\ StopInit /\ ResolveInit /\ CtlInit /\ LookupInit /\ RemoveInit /\ RateInit /\ ForumInit

SpecCtl == InitCtl /\ [][CtlNext]_vars

\* C24: after initialize() has returned False the controller is as it was
\* constructed -- publisher and downloader are None and is_p2p_online() is
\* False -- whichever statement of initialize raised.
C24_FailedInitializeLeavesNothing ==
    init_result = "False" =>
        /\ ~ctl_publisher
        /\ ~ctl_downloader
        /\ ~is_p2p_online

\* The site a delete_my_site step was called for, and what every other site
\* keeps through it.
DeleteStep == delete_tick' # delete_tick

OthersUnchanged(site) ==
    \A o \in Sites \ {site} :
        /\ (o \in DOMAIN metadata') = (o \in DOMAIN metadata)
        /\ o \in DOMAIN metadata => metadata'[o] = metadata[o]
        /\ (o \in key_files') = (o \in key_files)

LookupTimeout == 300
SleepTenths == 1
MaxAlertWait == 1

\* add_site for a valid site_id that is not tracked yet, up to the start of
\* the wait: without a stored public key the lookup returns None at once
\* (line 83) and add_site returns False; else dht_get_item is issued and
\* start_time taken.
AddSiteCall(site, auto_update) ==
    /\ lk.pc = "idle"
    /\ site \notin DOMAIN active_downloads
    /\ lookups < MaxLookups
    /\ IF site \notin DOMAIN metadata
       THEN /\ Lookup(site, NoResponse)
            /\ last_add' = [site |-> site, result |-> "False", address |-> None,
                            waited |-> FALSE, timed_out |-> FALSE, overrun |-> 0,
                            received |-> FALSE]
            /\ UNCHANGED lk
       ELSE /\ lk' = [pc |-> "waiting", site |-> site, auto_update |-> auto_update,
                      elapsed |-> 0, received |-> FALSE]
            /\ UNCHANGED <<lookups, last_lookup, accepted, last_add>>
    /\ UNCHANGED <<active_downloads, update_callbacks, checkers, observed,
                   last_update, stale>>
    /\ UNCHANGED pubVars
    /\ UNCHANGED notLookup

\* The test of the while loop, line 109.
KeepsWaiting_Forever(wait) == ~wait.received

KeepsWaiting(wait) == ~wait.received /\ wait.elapsed < LookupTimeout

\* One pass of the loop, lines 110-120: the sleep, wait_for_alert returning
\* after alert_wait tenths, and the popped alerts, among which the item
\* alert of this lookup is or is not.
WaitPass(alert_wait, arrived) ==
    /\ lk.pc = "waiting"
    /\ KeepsWaiting(lk)
    /\ lk' = [lk EXCEPT !.elapsed = @ + SleepTenths + alert_wait,
                        !.received = arrived]
    /\ UNCHANGED last_add
    /\ UNCHANGED dlVars
    /\ UNCHANGED pubVars
    /\ UNCHANGED notLookup

\* What the wait ended with, as the response _lookup_site_in_dht evaluates.
WaitResponse ==
    IF lk.received
    THEN [received |-> TRUE, idx |-> 0, item |-> ItemUnder(KeyAsked(lk.site))]
    ELSE NoResponse

\* The loop is left: _lookup_site_in_dht returns (lines 122-127) and add_site
\* goes on to _start_download or returns False (lines 53-60).
AddSiteReturns ==
    /\ lk.pc = "waiting"
    /\ ~KeepsWaiting(lk)
    /\ Lookup(lk.site, WaitResponse)
    /\ IF LookupSiteInDht(lk.site, WaitResponse) = None
       THEN UNCHANGED <<active_downloads, checkers, observed>>
       ELSE StartDownload(lk.site, LookupSiteInDht(lk.site, WaitResponse),
                          lk.auto_update, WaitResponse)
    /\ last_add' =
          [site |-> lk.site,
           result |-> IF LookupSiteInDht(lk.site, WaitResponse) = None
                      THEN "False" ELSE "True",
           address |-> LookupSiteInDht(lk.site, WaitResponse),
           waited |-> TRUE,
           timed_out |-> lk.elapsed >= LookupTimeout,
           overrun |-> IF lk.elapsed >= LookupTimeout
                       THEN lk.elapsed - LookupTimeout ELSE 0,
           received |-> lk.received]
    /\ lk' = NoWait
    /\ UNCHANGED <<update_callbacks, last_update, stale>>
    /\ UNCHANGED pubVars
    /\ UNCHANGED notLookup

\* One add_site at a time; sites are created and removed between calls.
LookupNext ==
    \/ lk.pc = "idle" /\ \E site \in Sites : CreateSite(site)
    \/ \E site \in Sites, auto_update \in BOOLEAN : AddSiteCall(site, auto_update)
    \/ \E alert_wait \in 0..MaxAlertWait, arrived \in BOOLEAN :
          WaitPass(alert_wait, arrived)
    \/ AddSiteReturns
    \/ lk.pc = "idle" /\ \E site \in Sites : RemoveSite(site)

InitLookup == KSInit /\ PubInit /\ DlInit /\ PathInit /\ IdInit /\ ServeInit /\ KeysInit /\ AuditInit /\ StopInit /\ ResolveInit /\ CtlInit /\ LookupInit /\ RemoveInit /\ RateInit /\ ForumInit

SpecLookup == InitLookup /\ [][LookupNext]_vars

\* The thread inside add_site keeps running: a pass of the loop, or the
\* return, is taken when it is possible.
SpecLookupLive ==
    SpecLookup /\ WF_vars(AddSiteReturns)
               /\ WF_vars(\E alert_wait \in 0..MaxAlertWait, arrived \in BOOLEAN :
                              WaitPass(alert_wait, arrived))

\* C25: a wait for the overlay always ends, and no later than one pass of
\* the loop after the 30 seconds.  When the response arrived, the add_site
\* that waited got the bundle address, returned True and the site is
\* tracked; when it did not, the 30 seconds had passed, the lookup returned
\* None, add_site returned False and the site was not added.
C25_LookupEndsWithinTimeout ==
    /\ [](lk.pc = "waiting" => lk.elapsed < LookupTimeout + SleepTenths + MaxAlertWait)
    /\ [](last_add.waited =>
            /\ last_add.overrun < SleepTenths + MaxAlertWait
            /\ last_add.received =>
                  /\ last_add.address = BundleUnder(PublicKeyOf(last_add.site))
                  /\ last_add.result = "True"
            /\ ~last_add.received =>
                  /\ last_add.timed_out
                  /\ last_add.address = None
                  /\ last_add.result = "False")
    /\ [][last_add' # last_add =>
            (last_add'.site \in DOMAIN active_downloads') = (last_add'.result = "True")]_vars
    /\ (lk.pc = "waiting" ~> lk.pc = "idle")

\* An add_site for a site with a stored key whose wait ran into the
\* timeout in a pass that began just before it: it returned False after
\* 30.1 seconds and the site is not tracked.
C25_Witness ==
    /\ last_add.waited
    /\ ~last_add.received
    /\ last_add.timed_out
    /\ last_add.overrun = MaxAlertWait
    /\ last_add.result = "False"
    /\ last_add.site \in DOMAIN metadata
    /\ last_add.site \notin DOMAIN active_downloads

(***************************************************************************)
(* AppController.shutdown  (core/app_controller.py, lines 63-76)           *)
(***************************************************************************)

notShutdown == <<ksVars, pathVars, idVars, serveVars, keyVars, auditVars,
                 stopVars, resolveVars, lookupVars, removeVars, rateVars,
                 forumVars>>
notRemove == <<ksVars, pubVars, pathVars, idVars, serveVars, keyVars,
               auditVars, stopVars, resolveVars, ctlVars, lookupVars,
               rateVars, forumVars>>
notRate == <<ksVars, pubVars, dlVars, pathVars, idVars, serveVars, keyVars,
             auditVars, stopVars, resolveVars, ctlVars, lookupVars,
             removeVars, forumVars>>
notForum == <<ksVars, pubVars, dlVars, pathVars, idVars, serveVars, keyVars,
              auditVars, stopVars, resolveVars, ctlVars, lookupVars,
              removeVars, rateVars>>

\* shutdown(), as emergency_shutdown of main.py calls it: when _online,
\* stop_seeding for every key of active_sites, remove_site for every key of
\* active_downloads, then _online = False; nothing when not _online.
\* publisher and downloader stay set.
Shutdown ==
    /\ init_result = "True"
    /\ IF ctl_online
       THEN /\ active_sites' = IF ctl_publisher THEN EmptyDict ELSE active_sites
            /\ active_downloads' = IF ctl_downloader THEN EmptyDict ELSE active_downloads
            /\ observed' = IF ctl_downloader THEN EmptyDict ELSE observed
            /\ stale' = IF ctl_downloader
                        THEN [s \in Sites |-> IF s \in DOMAIN active_downloads
                                              THEN checkers[s] ELSE stale[s]]
                        ELSE stale
            /\ ctl_online' = FALSE
       ELSE UNCHANGED <<active_sites, active_downloads, observed, stale, ctl_online>>
    /\ UNCHANGED <<metadata, key_files, dht_puts, pub, pub_history>>
    /\ UNCHANGED <<update_callbacks, checkers, accepted, lookups, last_lookup,
                   last_update>>
    /\ UNCHANGED <<ctl_publisher, ctl_downloader, ctl_forum, init_result,
                   delete_tick, last_delete>>
    /\ UNCHANGED notShutdown

\* AppController.add_site: the downloader's add_site once the downloader is
\* set (lines 119-122).
CtlAddSite(site, auto_update, resp) ==
    /\ init_result = "True"
    /\ ctl_downloader
    /\ AddSite(site, auto_update, resp)

\* The controller between startup and the kill switch's callback, with one
\* publishing thread whose key loads and whose put succeeds.
ShutdownNext ==
    \/ \E outcome \in InitOutcomes : Initialize(outcome)
    \/ \E site \in Sites : CtlCreateSite(site)
    \/ \E site \in Sites : CtlPublish(site, "c1", TRUE)
    \/ PubPut("t1", TRUE)
    \/ PubSeed("t1")
    \/ PubLoad("t1")
    \/ PubSave("t1")
    \/ \E site \in Sites, auto_update \in BOOLEAN :
          \E resp \in Responses(site) : CtlAddSite(site, auto_update, resp)
    \/ Shutdown

InitShutdown == KSInit /\ PubInit /\ DlInit /\ PathInit /\ IdInit /\ ServeInit /\ KeysInit /\ AuditInit /\ StopInit /\ ResolveInit /\ CtlInit /\ LookupInit /\ RemoveInit /\ RateInit /\ ForumInit

SpecShutdown == InitShutdown /\ [][ShutdownNext]_vars

\* shutdown() has completed on a controller that was online, and the
\* controller has not been initialized again.
ShutdownCompleted == init_result = "True" /\ ~ctl_online

\* C31: once shutdown() has completed, no site is seeded or downloaded:
\* active_sites and active_downloads are empty, whatever add_site and
\* publish_site calls follow.
C31_NothingActiveAfterShutdown ==
    ShutdownCompleted =>
        /\ active_sites = EmptyDict
        /\ active_downloads = EmptyDict

\* C32: publish_site is all-or-nothing.  A call that returned False returned
\* from the loading of the key or from the put that raised, before anything
\* was put to the overlay, seeded or saved; a call that returned True
\* returned after the put, the seeding and the saving of the metadata.
C32_PublishAllOrNothing ==
    \A i \in 1..Len(pub_history) :
        pub_history[i].ev = "ret" =>
            IF pub_history[i].ok
            THEN pub_history[i].at = "save"
            ELSE pub_history[i].at \in {"key", "put"}

\* The update_checker threads that are running, over all sites.
CheckerThreads == {<<s, n>> \in Sites \X (1..(MaxLookups + 1)) : n <= checkers[s]}

\* C33: at most one update checker runs per tracked site, and there are
\* never more checker threads than tracked sites.
C33_OneCheckerPerSite ==
    /\ \A s \in DOMAIN active_downloads : checkers[s] <= 1
    /\ Cardinality(CheckerThreads) <= Cardinality(DOMAIN active_downloads)

(***************************************************************************)
(* SiteDownloader.remove_site against update_checker inside _update_site   *)
(* (core/downloader.py, lines 182-258).  Every action is one statement of  *)
(* its thread; threads are switched between statements.                    *)
(***************************************************************************)

\* How many torrents are added to the session.
MaxHandles == 3

\* Entries of active_downloads carry the torrent handle here.
Entry(handle, info_hash, auto_update) ==
    [handle |-> handle, info_hash |-> info_hash, auto_update |-> auto_update]

\* session.add_torrent(params) for a site: a handle not seen before.
NewHandle(site) == <<site, handles_made + 1>>

TorrentsOf(site) == {h \in session_torrents : h[1] = site}

dlHistory == <<update_callbacks, observed, accepted, lookups, last_lookup,
               last_update, stale>>

\* add_site with auto_update for an untracked site whose lookup finds the
\* bundle: _start_download adds the torrent, stores the entry and starts
\* the site's update checker, which goes to sleep.
RmAddSite(site) ==
    /\ site \notin DOMAIN active_downloads
    /\ upd[site].pc = "none"
    /\ handles_made < MaxHandles
    /\ session_torrents' = session_torrents \cup {NewHandle(site)}
    /\ handles_made' = handles_made + 1
    /\ active_downloads' = DictSet(active_downloads, site,
                                   Entry(NewHandle(site), "h1", TRUE))
    /\ checkers' = [checkers EXCEPT ![site] = @ + 1]
    /\ upd' = [upd EXCEPT ![site] = [NoChecker EXCEPT !.pc = "sleeping"]]
    /\ removed_since' = removed_since \ {site}
    /\ UNCHANGED rm
    /\ UNCHANGED dlHistory
    /\ UNCHANGED notRemove

\* update_checker, lines 183-203: the sleep is over.  The thread ends when
\* the site is no longer tracked; else it looks the site up and, finding
\* another info hash than the tracked one, enters _update_site.
CheckerWakes(site, changed) ==
    /\ upd[site].pc = "sleeping"
    /\ IF site \notin DOMAIN active_downloads
       THEN /\ upd' = [upd EXCEPT ![site] = NoChecker]
            /\ checkers' = [checkers EXCEPT ![site] = @ - 1]
       ELSE /\ upd' = [upd EXCEPT ![site] =
                        IF changed /\ handles_made < MaxHandles
                        THEN [@ EXCEPT !.pc = "read_handle", !.new_hash = "h2"]
                        ELSE @]
            /\ UNCHANGED checkers
    /\ UNCHANGED <<session_torrents, handles_made, rm, removed_since>>
    /\ UNCHANGED active_downloads
    /\ UNCHANGED dlHistory
    /\ UNCHANGED notRemove

\* The except branch of update_checker (line 209): back to the loop's test.
BackToLoop(site) == [upd EXCEPT ![site] = [NoChecker EXCEPT !.pc = "sleeping"]]

\* _update_site, line 225: old_handle = self.active_downloads[site_id]['handle'];
\* KeyError when the site was removed.
UpdReadHandle(site) ==
    /\ upd[site].pc = "read_handle"
    /\ upd' = IF site \in DOMAIN active_downloads
              THEN [upd EXCEPT ![site].pc = "remove_old",
                               ![site].old_handle = active_downloads[site].handle]
              ELSE BackToLoop(site)
    /\ UNCHANGED <<session_torrents, handles_made, rm, removed_since>>
    /\ UNCHANGED <<active_downloads, checkers>>
    /\ UNCHANGED dlHistory
    /\ UNCHANGED notRemove

\* _update_site, line 226: session.remove_torrent(old_handle).  For a handle
\* whose torrent was removed already, libtorrent raises or does nothing,
\* depending on whether the session has dropped the torrent object yet.
UpdRemoveOld(site, raises) ==
    /\ upd[site].pc = "remove_old"
    /\ IF upd[site].old_handle \in session_torrents
       THEN /\ session_torrents' = session_torrents \ {upd[site].old_handle}
            /\ upd' = [upd EXCEPT ![site].pc = "args"]
       ELSE /\ UNCHANGED session_torrents
            /\ upd' = IF raises THEN BackToLoop(site)
                      ELSE [upd EXCEPT ![site].pc = "args"]
    /\ UNCHANGED <<handles_made, rm, removed_since>>
    /\ UNCHANGED <<active_downloads, checkers>>
    /\ UNCHANGED dlHistory
    /\ UNCHANGED notRemove

\* _update_site, lines 229-233: the arguments of _start_download are
\* evaluated, among them self.active_downloads[site_id]['auto_update'];
\* KeyError when the site was removed.
UpdArgs(site) ==
    /\ upd[site].pc = "args"
    /\ upd' = IF site \in DOMAIN active_downloads
              THEN [upd EXCEPT ![site].pc = "add_torrent",
                               ![site].auto_update = active_downloads[site].auto_update]
              ELSE BackToLoop(site)
    /\ UNCHANGED <<session_torrents, handles_made, rm, removed_since>>
    /\ UNCHANGED <<active_downloads, checkers>>
    /\ UNCHANGED dlHistory
    /\ UNCHANGED notRemove

\* _start_download, lines 144-156: the torrent of the new version is added
\* to the session.
UpdAddTorrent(site) ==
    /\ upd[site].pc = "add_torrent"
    /\ session_torrents' = session_torrents \cup {NewHandle(site)}
    /\ handles_made' = handles_made + 1
    /\ upd' = [upd EXCEPT ![site].pc = "store", ![site].new_handle = NewHandle(site)]
    /\ UNCHANGED <<rm, removed_since>>
    /\ UNCHANGED <<active_downloads, checkers>>
    /\ UNCHANGED dlHistory
    /\ UNCHANGED notRemove

\* _start_download, lines 158-169: the entry is stored under the site and,
\* with auto_update, one more update checker is started; the checker that
\* made the update goes back to its loop.
UpdStore(site) ==
    /\ upd[site].pc = "store"
    /\ active_downloads' = DictSet(active_downloads, site,
          Entry(upd[site].new_handle, upd[site].new_hash, upd[site].auto_update))
    /\ checkers' = [checkers EXCEPT ![site] =
                        IF upd[site].auto_update THEN @ + 1 ELSE @]
    /\ upd' = BackToLoop(site)
    /\ UNCHANGED <<session_torrents, handles_made, rm, removed_since>>
    /\ UNCHANGED dlHistory
    /\ UNCHANGED notRemove

\* remove_site, lines 244-249: returns at once for an untracked site, else
\* reads the handle of the entry.
RmCall(site) ==
    /\ rm.pc = "idle"
    /\ IF site \notin DOMAIN active_downloads
       THEN /\ removed_since' = removed_since \cup {site}
            /\ UNCHANGED rm
       ELSE /\ rm' = [pc |-> "remove_torrent", site |-> site,
                      handle |-> active_downloads[site].handle]
            /\ UNCHANGED removed_since
    /\ UNCHANGED <<session_torrents, handles_made, upd>>
    /\ UNCHANGED <<active_downloads, checkers>>
    /\ UNCHANGED dlHistory
    /\ UNCHANGED notRemove

\* remove_site, lines 251-254: session.remove_torrent(handle); when it
\* raises, remove_site raises and does not return.
RmRemoveTorrent(raises) ==
    /\ rm.pc = "remove_torrent"
    /\ IF rm.handle \in session_torrents
       THEN /\ session_torrents' = session_torrents \ {rm.handle}
            /\ rm' = [rm EXCEPT !.pc = "del"]
       ELSE /\ UNCHANGED session_torrents
            /\ rm' = IF raises THEN NoRemove ELSE [rm EXCEPT !.pc = "del"]
    /\ UNCHANGED <<handles_made, upd, removed_since>>
    /\ UNCHANGED <<active_downloads, checkers>>
    /\ UNCHANGED dlHistory
    /\ UNCHANGED notRemove

\* remove_site, lines 256-258: del self.active_downloads[site_id], return.
RmDel ==
    /\ rm.pc = "del"
    /\ active_downloads' = DictDel(active_downloads, rm.site)
    /\ removed_since' = removed_since \cup {rm.site}
    /\ rm' = NoRemove
    /\ UNCHANGED <<session_torrents, handles_made, upd>>
    /\ UNCHANGED checkers
    /\ UNCHANGED dlHistory
    /\ UNCHANGED notRemove

RemoveNext ==
    \/ \E site \in Sites : RmAddSite(site)
    \/ \E site \in Sites, changed \in BOOLEAN : CheckerWakes(site, changed)
    \/ \E site \in Sites : UpdReadHandle(site)
    \/ \E site \in Sites, raises \in BOOLEAN : UpdRemoveOld(site, raises)
    \/ \E site \in Sites : UpdArgs(site)
    \/ \E site \in Sites : UpdAddTorrent(site)
    \/ \E site \in Sites : UpdStore(site)
    \/ \E site \in Sites : RmCall(site)
    \/ \E raises \in BOOLEAN : RmRemoveTorrent(raises)
    \/ RmDel

InitRemove == KSInit /\ PubInit /\ DlInit /\ PathInit /\ IdInit /\ ServeInit /\ KeysInit /\ AuditInit /\ StopInit /\ ResolveInit /\ CtlInit /\ LookupInit /\ RemoveInit /\ RateInit /\ ForumInit

SpecRemove == InitRemove /\ [][RemoveNext]_vars

\* C34: a site for which remove_site has returned, and add_site has not
\* been called since, is absent from active_downloads and has no torrent in
\* the session.
C34_RemovedStaysRemoved ==
    \A s \in removed_since :
        /\ s \notin DOMAIN active_downloads
        /\ TorrentsOf(s) = {}

(***************************************************************************)
(* rate_limit  (server/local_server.py, lines 27-65), with the threads of  *)
(* app.run(threaded=True).  One client address.                            *)
(***************************************************************************)

RATE_LIMIT == 100
WindowSeconds == 60

\* How many times the clock moves on, by a whole window each time.
MaxClockSteps == 1

ClientIp == "ip1"

\* The list comprehension of lines 46-49.
Recent(times, current_time) ==
    SelectSeq(times, LAMBDA t : current_time - t < WindowSeconds)

\* Lines 41-51: the request's address and time are taken and the client's
\* list is replaced by its recent entries, or created.
RateEnter(w) ==
    /\ worker[w].pc = "idle"
    /\ request_times' =
          DictSet(request_times, ClientIp,
                  IF ClientIp \in DOMAIN request_times
                  THEN Recent(request_times[ClientIp], clock)
                  ELSE << >>)
    /\ worker' = [worker EXCEPT ![w] = [pc |-> "check", current_time |-> clock]]
    /\ UNCHANGED <<clock, admitted>>
    /\ UNCHANGED notRate

\* The test of line 54.
OverLimit(times) == Len(times) >= RATE_LIMIT

\* Lines 54-60: over the limit the request is answered 429 and the handler
\* is not called.
RateCheck(w) ==
    /\ worker[w].pc = "check"
    /\ worker' = [worker EXCEPT ![w] =
                      IF OverLimit(request_times[ClientIp])
                      THEN IdleWorker
                      ELSE [@ EXCEPT !.pc = "append"]]
    /\ UNCHANGED <<request_times, clock, admitted>>
    /\ UNCHANGED notRate

\* Lines 62-63: the time is appended and the request is passed to the
\* route handler.
RateAdmit(w) ==
    /\ worker[w].pc = "append"
    /\ request_times' =
          [request_times EXCEPT ![ClientIp] = Append(@, worker[w].current_time)]
    /\ admitted' = DictSet(admitted, worker[w].current_time,
                           IF worker[w].current_time \in DOMAIN admitted
                           THEN admitted[worker[w].current_time] + 1 ELSE 1)
    /\ worker' = [worker EXCEPT ![w] = IdleWorker]
    /\ UNCHANGED clock
    /\ UNCHANGED notRate

\* A window's length of time passes.
ClockAdvances ==
    /\ clock < MaxClockSteps * WindowSeconds
    /\ clock' = clock + WindowSeconds
    /\ UNCHANGED <<request_times, worker, admitted>>
    /\ UNCHANGED notRate

RateNext ==
    \/ \E w \in ServerThreads : RateEnter(w)
    \/ \E w \in ServerThreads : RateCheck(w)
    \/ \E w \in ServerThreads : RateAdmit(w)
    \/ ClockAdvances

InitRate == KSInit /\ PubInit /\ DlInit /\ PathInit /\ IdInit /\ ServeInit /\ KeysInit /\ AuditInit /\ StopInit /\ ResolveInit /\ CtlInit /\ LookupInit /\ RemoveInit /\ RateInit /\ ForumInit

SpecRate == InitRate /\ [][RateNext]_vars

\* The requests of the client passed to a handler at times in the window
\* of 60 seconds that ends at time `last`.
AdmittedInWindow(last) ==
    LET in_window == {t \in DOMAIN admitted : last - t < WindowSeconds /\ t <= last}
        RECURSIVE Total(_)
        Total(ts) == IF ts = {} THEN 0
                     ELSE LET t == CHOOSE x \in ts : TRUE
                          IN  admitted[t] + Total(ts \ {t})
    IN  Total(in_window)

\* C35: in every window of 60 seconds at most RATE_LIMIT requests of the
\* client are passed to a route handler, also with several server threads.
C35_AtMostLimitPerWindow ==
    \A last \in DOMAIN admitted : AdmittedInWindow(last) <= RATE_LIMIT

(***************************************************************************)
(* ForumManager.add_post, vote and merge_data  (core/forum_manager.py)     *)
(***************************************************************************)

\* How many posts add_post creates.
MaxPosts == 2

\* How many posts an incoming forum file holds.
MaxIncoming == 2

Users == {"u1", "u2"}
Directions == {"up", "down", "sideways"}

\* str(uuid.uuid4()) of the n-th local post; posts of other nodes.
LocalId(n) == <<"local", n>>
RemoteIds == {<<"remote", 1>>}

Post(post_id, content) ==
    [post_id |-> post_id, content |-> content,
     votes |-> [up |-> << >>, down |-> << >>]]

\* _save_data, taken to succeed: the file holds the posts.
Saved(posts) == posts

\* add_post, lines 50-60.
AddPost ==
    /\ posts_made < MaxPosts
    /\ posts_made' = posts_made + 1
    /\ forum_data' = Append(forum_data, Post(LocalId(posts_made + 1), "c_local"))
    /\ forum_file' = Saved(forum_data')
    /\ last_vote' = NoVote
    /\ last_merge' = NoMerge
    /\ UNCHANGED notForum

\* list.remove(x): the first occurrence goes.
RemoveFirst(seq, x) ==
    LET i == CHOOSE j \in 1..Len(seq) :
                 seq[j] = x /\ \A k \in 1..(j - 1) : seq[k] # x
    IN  SubSeq(seq, 1, i - 1) \o SubSeq(seq, i + 1, Len(seq))

InSeq(x, seq) == \E j \in 1..Len(seq) : seq[j] = x

\* Lines 85-94: the votes of a post after user_id voted in a direction that
\* is "up" or "down".
VotesAfter_KeepsOther(votes, user_id, direction) ==
    LET other == IF direction = "up" THEN "down" ELSE "up"
    IN  IF InSeq(user_id, votes[direction]) THEN votes
        ELSE [votes EXCEPT ![direction] = Append(@, user_id)]

VotesAfter(votes, user_id, direction) ==
    LET other == IF direction = "up" THEN "down" ELSE "up"
    IN  IF InSeq(user_id, votes[direction]) THEN votes
        ELSE [votes EXCEPT ![direction] = Append(@, user_id),
                           ![other] = IF InSeq(user_id, @)
                                      THEN RemoveFirst(@, user_id) ELSE @]

\* Line 80: the first post with the id, or None (0 here).
FindPost(posts, post_id) ==
    IF \E i \in 1..Len(posts) : posts[i].post_id = post_id
    THEN CHOOSE i \in 1..Len(posts) :
            posts[i].post_id = post_id /\ \A k \in 1..(i - 1) : posts[k].post_id # post_id
    ELSE 0

\* vote(post_id, user_id, direction).
Vote(post_id, user_id, direction) ==
    LET i == FindPost(forum_data, post_id)
    IN  /\ IF i = 0 \/ direction \notin {"up", "down"}
           THEN /\ UNCHANGED <<forum_data, forum_file>>
                /\ last_vote' = [post_id |-> post_id, user_id |-> user_id,
                                 direction |-> direction, moved |-> FALSE,
                                 result |-> "False"]
           ELSE /\ forum_data' = [forum_data EXCEPT ![i].votes =
                                      VotesAfter(@, user_id, direction)]
                /\ forum_file' = Saved(forum_data')
                /\ last_vote' =
                      [post_id |-> post_id, user_id |-> user_id,
                       direction |-> direction,
                       moved |-> Len(forum_data'[i].votes.up) + Len(forum_data'[i].votes.down)
                                 = Len(forum_data[i].votes.up) + Len(forum_data[i].votes.down)
                                 /\ forum_data' # forum_data,
                       result |-> "True"]
        /\ last_merge' = NoMerge
        /\ UNCHANGED posts_made
        /\ UNCHANGED notForum

VoteNext ==
    \/ AddPost
    \/ \E n \in 1..(MaxPosts + 1), user_id \in Users, direction \in Directions :
          Vote(LocalId(n), user_id, direction)

InitVote == KSInit /\ PubInit /\ DlInit /\ PathInit /\ IdInit /\ ServeInit /\ KeysInit /\ AuditInit /\ StopInit /\ ResolveInit /\ CtlInit /\ LookupInit /\ RemoveInit /\ RateInit /\ ForumInit

SpecVote == InitVote /\ [][VoteNext]_vars

Occurrences(x, seq) == Cardinality({j \in 1..Len(seq) : seq[j] = x})

\* C36: every post lists a user at most once among its up votes and at
\* most once among its down votes, and never in both; a vote for an unknown
\* post_id or with a direction other than "up" and "down" returns False
\* and changes neither the posts nor the file, any other vote returns True.
C36_VotesAreConsistent ==
    /\ [](\A i \in 1..Len(forum_data) : \A u \in Users :
            /\ Occurrences(u, forum_data[i].votes.up) <= 1
            /\ Occurrences(u, forum_data[i].votes.down) <= 1
            /\ ~(InSeq(u, forum_data[i].votes.up) /\ InSeq(u, forum_data[i].votes.down)))
    /\ [][(last_vote' # last_vote /\ last_vote'.result # "not called") =>
            IF \/ FindPost(forum_data, last_vote'.post_id) = 0
               \/ last_vote'.direction \notin {"up", "down"}
            THEN /\ last_vote'.result = "False"
                 /\ UNCHANGED <<forum_data, forum_file>>
            ELSE last_vote'.result = "True"]_vars

\* A user who had voted the first post down has voted it up: the user is
\* among its up votes only, next to another user's down vote.
C36_Witness ==
    /\ last_vote.result = "True"
    /\ last_vote.post_id = LocalId(1)
    /\ last_vote.user_id = "u1" /\ last_vote.direction = "up"
    /\ last_vote.moved
    /\ Len(forum_data) >= 1
    /\ forum_data[1].votes.up = <<"u1">>
    /\ forum_data[1].votes.down = <<"u2">>

\* The files merge_data is given: without a "posts" entry, or with up to
\* MaxIncoming posts, each a post of another node or one with the id of a
\* local post.
IncomingPosts ==
    {Post(id, "c_remote") :
        id \in RemoteIds \cup {forum_data[i].post_id : i \in 1..Len(forum_data)}}

IncomingData ==
    {[has_posts |-> FALSE, posts |-> << >>]} \cup
    {[has_posts |-> TRUE, posts |-> ps] :
        ps \in UNION {[1..n -> IncomingPosts] : n \in 0..MaxIncoming}}

\* Lines 104-113: local_post_ids is taken once, before the loop; every
\* incoming post whose id is not in it is appended.
MergedPosts(local, incoming) ==
    LET local_post_ids == {local[i].post_id : i \in 1..Len(local)}
    IN  local \o SelectSeq(incoming, LAMBDA post : post.post_id \notin local_post_ids)

\* merge_data(other_data).
MergeData(other_data) ==
    /\ IF ~other_data.has_posts
       THEN UNCHANGED <<forum_data, forum_file>>
       ELSE /\ forum_data' = MergedPosts(forum_data, other_data.posts)
            /\ forum_file' = IF forum_data' # forum_data
                             THEN Saved(forum_data') ELSE forum_file
    /\ last_merge' =
          [has_posts |-> other_data.has_posts, posts |-> other_data.posts,
           before |-> forum_data,
           repeated |-> /\ last_merge.result # "not called"
                        /\ last_merge.has_posts = other_data.has_posts
                        /\ last_merge.posts = other_data.posts,
           result |-> IF other_data.has_posts
                         /\ MergedPosts(forum_data, other_data.posts) # forum_data
                      THEN "True" ELSE "False"]
    /\ last_vote' = NoVote
    /\ UNCHANGED posts_made
    /\ UNCHANGED notForum

MergeNext ==
    \/ AddPost
    \/ \E other_data \in IncomingData : MergeData(other_data)

InitMerge == KSInit /\ PubInit /\ DlInit /\ PathInit /\ IdInit /\ ServeInit /\ KeysInit /\ AuditInit /\ StopInit /\ ResolveInit /\ CtlInit /\ LookupInit /\ RemoveInit /\ RateInit /\ ForumInit

SpecMerge == InitMerge /\ [][MergeNext]_vars

\* C37: after a merge_data call the posts that were there before are
\* still there, unaltered and in place; the post_ids of forum_data are
\* pairwise distinct; and a call that repeated the data of the call before
\* it returned False and changed nothing.
C37_MergeKeepsAndDeduplicates ==
    last_merge.result # "not called" =>
        /\ Len(forum_data) >= Len(last_merge.before)
        /\ SubSeq(forum_data, 1, Len(last_merge.before)) = last_merge.before
        /\ \A i, j \in 1..Len(forum_data) :
              forum_data[i].post_id = forum_data[j].post_id => i = j
        /\ last_merge.repeated =>
              /\ last_merge.result = "False"
              /\ forum_data = last_merge.before

====
